---------------------------- MODULE Spec2Model ----------------------------
(***************************************************************************)
(* Namespace discovery (SchemaParser._discover_nested_operations) and      *)
(* query construction (QueryBuilder.build) of gql-pygen.                   *)
(*                                                                         *)
(* Python lists have identity: two names can denote the same list.  The    *)
(* variable `lists` is the heap of argument lists; operations and fields   *)
(* hold references (indexes) into it.  An IRArgument is a record whose     *)
(* `id` field stands for the identity of the Python object.                *)
(***************************************************************************)
EXTENDS Integers, Sequences, FiniteSets, TLC

VARIABLES
    schema,            \* IRSchema: scalars, enums, types, inputs, interfaces
    queries,           \* IRSchema.queries
    mutations,         \* IRSchema.mutations
    lists,             \* heap of argument lists (list identity)
    pc,                \* position in _discover_nested_operations
    ri,                \* index of the next root operation of the running loop
    stack,             \* call stack of _traverse_namespace
    nested_queries,    \* local list of _discover_nested_operations
    nested_mutations,  \* local list of _discover_nested_operations
    pre,               \* the operation lists as they were before discovery
    query_cache,       \* QueryBuilder._query_cache: cache key -> document
    last,              \* the last call of QueryBuilder.build and its outcome
    nbuilds,           \* number of calls of QueryBuilder.build so far
    executor,          \* GraphQLExecutor: builder attached, catalogue, calls
    hook_runner,       \* HookRunner: pre_hooks, post_hooks and its last run
    nodes,             \* heap of ClientNode objects; nodes[1] is the root
    added              \* the add_operation calls made on the root so far

vars ==
    << schema, queries, mutations, lists, pc, ri, stack,
       nested_queries, nested_mutations, pre,
       query_cache, last, nbuilds, executor, hook_runner, nodes, added >>

---------------------------------------------------------------------------
(* Bounds *)

\* Depth of the Python call stack at which RecursionError is raised.
RecursionLimit == 4

---------------------------------------------------------------------------
(* Strings *)

EndsWith(s, suffix) ==
    /\ Len(s) >= Len(suffix)
    /\ SubSeq(s, Len(s) - Len(suffix) + 1, Len(s)) = suffix

StartsWith(s, prefix) ==
    /\ Len(s) >= Len(prefix)
    /\ SubSeq(s, 1, Len(prefix)) = prefix

---------------------------------------------------------------------------
(* IR constructors *)

IRArgument(id, name, type_name, is_list, is_optional) ==
    [ id |-> id, name |-> name, type_name |-> type_name,
      is_list |-> is_list, is_optional |-> is_optional ]

IRField(name, type_name, is_list, is_optional, arguments) ==
    [ name |-> name, type_name |-> type_name, is_list |-> is_list,
      is_optional |-> is_optional, arguments |-> arguments ]

\* __post_init__: an empty path becomes [name].
IROperation(name, operation_type, arguments, return_type, is_return_list, is_return_optional, path, parent_arguments) ==
    [ name |-> name, operation_type |-> operation_type,
      arguments |-> arguments, return_type |-> return_type,
      is_return_list |-> is_return_list,
      is_return_optional |-> is_return_optional,
      path |-> IF path = << >> THEN << name >> ELSE path,
      parent_arguments |-> parent_arguments ]

\* The suffix test left out: every type name counts as a namespace.
is_namespace_type_any(type_name) == Len(type_name) >= 0

is_namespace_type(type_name) ==
    EndsWith(type_name, "Mutations") \/ EndsWith(type_name, "Queries")

\* The two operands of the concatenation exchanged.
all_arguments_own_first(op, heap) ==
    heap[op.arguments] \o heap[op.parent_arguments]

\* IROperation.all_arguments, read in the heap `heap`.
all_arguments(op, heap) ==
    heap[op.parent_arguments] \o heap[op.arguments]


---------------------------------------------------------------------------
(* Schemas: the IR as SchemaParser holds it before discovery.  Every field *)
(* and every operation owns its argument list (a reference into `lists`),  *)
(* and every root operation owns an empty parent_arguments list.           *)

NoTypes == [ n \in {} |-> << >> ]

\* type PolicyMutations / InternetFirewallPolicyMutations: the nested
\* mutation policy.internetFirewall.addRule with two arguments named input;
\* Query.getUser and Query.get -> GetQueries.user share a snake-case name.
SchemaFirewall ==
    [ scalars    |-> {},
      enums      |-> {},
      types      |->
          "PolicyMutations" :> <<
              IRField("internetFirewall", "InternetFirewallPolicyMutations",
                      FALSE, FALSE, 2) >>
       @@ "InternetFirewallPolicyMutations" :> <<
              IRField("addRule", "Payload", FALSE, FALSE, 3),
              IRField("placeholder", "bool", FALSE, TRUE, 4) >>
       @@ "GetQueries" :> <<
              IRField("user", "User", FALSE, TRUE, 7) >>
       @@ "Payload" :> <<
              IRField("id", "ID", FALSE, FALSE, 8),
              IRField("rule", "Rule", FALSE, TRUE, 9) >>
       @@ "Rule" :> <<
              IRField("name", "String", FALSE, TRUE, 10),
              IRField("enabled", "Boolean", FALSE, TRUE, 11) >>
       @@ "User" :> <<
              IRField("id", "ID", FALSE, FALSE, 12),
              IRField("name", "String", FALSE, TRUE, 13),
              IRField("friend", "User", FALSE, TRUE, 14) >>,
      inputs     |-> NoTypes,
      interfaces |-> NoTypes,
      queries    |-> <<
          IROperation("getUser", "query", 5, "User", FALSE, TRUE, << >>, 15),
          IROperation("get", "query", 6, "GetQueries", FALSE, FALSE, << >>, 16) >>,
      mutations  |-> <<
          IROperation("policy", "mutation", 1, "PolicyMutations",
                      FALSE, FALSE, << >>, 17) >>,
      lists      |-> <<
          << IRArgument(1, "accountId", "ID", FALSE, FALSE) >>,
          << IRArgument(2, "input", "InternetFirewallPolicyMutationInput",
                        FALSE, TRUE) >>,
          << IRArgument(3, "input", "AddRuleInput", FALSE, FALSE) >>,
          << >>,
          << IRArgument(4, "id", "ID", FALSE, FALSE) >>,
          << >>,
          << IRArgument(5, "id", "ID", FALSE, FALSE) >>,
          << >>, << >>, << >>, << >>, << >>, << >>, << >>,
          << >>, << >>, << >> >> ]

\* Query.site and Mutation.site share the name "site"; sibling leaves sit
\* directly under the roots; SiteQueries holds `placeholder: Boolean`,
\* SiteMutations holds `placeholder: bool`; AdminMutations and Owner are
\* not defined (a partially known schema).
SchemaSite ==
    [ scalars    |-> {},
      enums      |-> {"Status"},
      types      |->
          "SiteQueries" :> <<
              IRField("list", "Site", TRUE, TRUE, 3),
              IRField("placeholder", "Boolean", FALSE, TRUE, 4) >>
       @@ "SiteMutations" :> <<
              IRField("add", "Site", FALSE, TRUE, 5),
              IRField("remove", "Boolean", FALSE, TRUE, 6),
              IRField("placeholder", "bool", FALSE, TRUE, 7),
              IRField("admin", "AdminMutations", FALSE, TRUE, 8) >>
       @@ "Site" :> <<
              IRField("id", "ID", FALSE, FALSE, 9),
              IRField("status", "Status", FALSE, TRUE, 10),
              IRField("owner", "Owner", FALSE, TRUE, 11) >>,
      inputs     |-> NoTypes,
      interfaces |-> NoTypes,
      queries    |-> <<
          IROperation("site", "query", 1, "SiteQueries", FALSE, FALSE, << >>, 12) >>,
      mutations  |-> <<
          IROperation("site", "mutation", 2, "SiteMutations", FALSE, FALSE,
                      << >>, 13) >>,
      lists      |-> <<
          << IRArgument(1, "accountId", "ID", FALSE, FALSE) >>,
          << IRArgument(2, "accountId", "ID", FALSE, FALSE),
             IRArgument(3, "region", "String", FALSE, TRUE) >>,
          << IRArgument(4, "limit", "Int", FALSE, TRUE) >>,
          << >>,
          << IRArgument(5, "name", "String", FALSE, FALSE) >>,
          << IRArgument(6, "id", "ID", FALSE, FALSE) >>,
          << >>, << >>, << >>, << >>, << >>, << >>, << >> >> ]

\* A namespace type that is reachable from itself.
SchemaLoop ==
    [ scalars    |-> {},
      enums      |-> {},
      types      |->
          "LoopQueries" :> <<
              IRField("ping", "String", FALSE, TRUE, 2),
              IRField("again", "LoopQueries", FALSE, TRUE, 3) >>,
      inputs     |-> NoTypes,
      interfaces |-> NoTypes,
      queries    |-> <<
          IROperation("loop", "query", 1, "LoopQueries", FALSE, FALSE, << >>, 4) >>,
      mutations  |-> << >>,
      lists      |-> <<
          << IRArgument(1, "a", "ID", FALSE, TRUE) >>,
          << >>,
          << IRArgument(2, "b", "ID", FALSE, TRUE) >>,
          << >> >> ]

\* Object types that refer to each other in cycles, an interface, and an
\* operation whose return type the schema does not define.
SchemaLibrary ==
    [ scalars    |-> {},
      enums      |-> {},
      types      |->
          "Author" :> <<
              IRField("name", "String", FALSE, TRUE, 3),
              IRField("books", "Book", TRUE, TRUE, 4) >> @@
          "Book" :> <<
              IRField("title", "String", FALSE, TRUE, 5),
              IRField("author", "Author", FALSE, TRUE, 6),
              IRField("publisher", "Publisher", FALSE, TRUE, 7) >> @@
          "Publisher" :> <<
              IRField("node", "Node", FALSE, TRUE, 8),
              IRField("authors", "Author", TRUE, TRUE, 9) >>,
      inputs     |-> NoTypes,
      interfaces |->
          "Node" :> << IRField("id", "ID", FALSE, FALSE, 10) >>,
      queries    |-> <<
          IROperation("author", "query", 1, "Author", FALSE, TRUE, << >>, 11),
          IROperation("ghost", "query", 2, "Ghost", FALSE, TRUE, << >>, 12) >>,
      mutations  |-> << >>,
      lists      |-> <<
          << IRArgument(1, "id", "ID", FALSE, FALSE) >>,
          << >>, << >>, << >>, << >>, << >>, << >>, << >>, << >>, << >>,
          << >>, << >> >> ]

Schemas == { SchemaFirewall, SchemaSite, SchemaLoop, SchemaLibrary }

\* A family of small schemas: Query.root(t) returns AQueries and Mutation.m
\* returns BQueries; each of the two namespace types holds up to MaxFields
\* distinct fields, each a leaf, the placeholder sentinel, or a namespace
\* field to AQueries, to BQueries or to the undefined CQueries.
MaxFields == 2

FieldKinds == { "leaf", "placeholder", "toA", "toB", "toC" }

FieldLists ==
    { fs \in UNION { [ 1..n -> FieldKinds ] : n \in 0..MaxFields } :
        \A i, j \in DOMAIN fs : fs[i] = fs[j] => i = j }

KindField(kind, ref) ==
    CASE kind = "leaf"        -> IRField("leaf", "String", FALSE, TRUE, ref)
      [] kind = "placeholder" -> IRField("placeholder", "bool", FALSE, TRUE, ref)
      [] kind = "toA"         -> IRField("a", "AQueries", FALSE, FALSE, ref)
      [] kind = "toB"         -> IRField("b", "BQueries", FALSE, FALSE, ref)
      [] kind = "toC"         -> IRField("c", "CQueries", FALSE, FALSE, ref)

KindArguments(kind, ref) ==
    CASE kind = "leaf" -> << IRArgument(ref, "x", "Int", FALSE, TRUE) >>
      [] kind = "toA"  -> << IRArgument(ref, "p", "ID", FALSE, FALSE) >>
      [] kind = "toB"  -> << IRArgument(ref, "q", "ID", FALSE, FALSE) >>
      [] OTHER         -> << >>

SmallSchema(fa, fb) ==
    [ scalars    |-> {},
      enums      |-> {},
      types      |->
          "AQueries" :> [ i \in DOMAIN fa |-> KindField(fa[i], 4 + i) ]
       @@ "BQueries" :> [ i \in DOMAIN fb |->
                            KindField(fb[i], 4 + Len(fa) + i) ],
      inputs     |-> NoTypes,
      interfaces |-> NoTypes,
      queries    |-> <<
          IROperation("root", "query", 1, "AQueries", FALSE, FALSE, << >>, 2) >>,
      mutations  |-> <<
          IROperation("m", "mutation", 3, "BQueries", FALSE, FALSE, << >>, 4) >>,
      lists      |->
          << << IRArgument(1, "t", "ID", FALSE, FALSE) >>, << >>,
             << >>, << >> >>
          \o [ i \in DOMAIN fa |-> KindArguments(fa[i], 4 + i) ]
          \o [ i \in DOMAIN fb |-> KindArguments(fb[i], 4 + Len(fa) + i) ] ]

SmallSchemas == { SmallSchema(fa, fb) : fa, fb \in FieldLists }

\* A family of schemas for the variables of a document: Mutation.ns(...)
\* returns NsMutations, whose field leaf(...) returns Payload.  The argument
\* lists of ns and of leaf hold up to MaxListArgs arguments of distinct
\* names, as GraphQL requires of the arguments of one field.
MaxListArgs == 2

ArgumentKinds ==
    { [ name |-> "input", type_name |-> "PolicyMutationInput" ],
      [ name |-> "input", type_name |-> "AddRuleInput" ],
      [ name |-> "input_addRule", type_name |-> "ID" ] }

ArgumentLists ==
    { as \in UNION { [ 1..n -> ArgumentKinds ] : n \in 0..MaxListArgs } :
        \A i, j \in DOMAIN as : as[i].name = as[j].name => i = j }

KindArgumentList(as, base) ==
    [ i \in DOMAIN as |->
        IRArgument(base + i, as[i].name, as[i].type_name, FALSE, FALSE) ]

ArgumentSchema(ns_args, leaf_args) ==
    [ scalars    |-> {},
      enums      |-> {},
      types      |->
          "NsMutations" :> << IRField("leaf", "Payload", FALSE, TRUE, 3) >>
       @@ "Payload" :> << IRField("id", "ID", FALSE, FALSE, 4) >>,
      inputs     |-> NoTypes,
      interfaces |-> NoTypes,
      queries    |-> << >>,
      mutations  |-> <<
          IROperation("ns", "mutation", 1, "NsMutations", FALSE, FALSE,
                      << >>, 2) >>,
      lists      |->
          << KindArgumentList(ns_args, 0), << >>,
             KindArgumentList(leaf_args, MaxListArgs), << >> >> ]

ArgumentSchemas ==
    { ArgumentSchema(ns_args, leaf_args) : ns_args, leaf_args \in ArgumentLists }

---------------------------------------------------------------------------
(* SchemaParser._discover_nested_operations and _traverse_namespace        *)

Frame(type_name, op_type, path, parent_args) ==
    [ type_name |-> type_name, op_type |-> op_type, path |-> path,
      parent_args |-> parent_args, i |-> 1 ]

Top == stack[Len(stack)]

Pop == SubSeq(stack, 1, Len(stack) - 1)

\* The frame on top of the stack with its loop over the fields advanced.
Advance == [ stack EXCEPT ![Len(stack)].i = @ + 1 ]

\* self.ir.types.get(type_name): only object types are looked up.
HasTypeDef(type_name) == type_name \in DOMAIN schema.types

Roots == IF pc = "queries" THEN queries ELSE mutations

\* Both loops pass op_type="query" and results=nested_queries.
OpKindAlwaysQuery == "query"

\* op_type, and with it the results list, that the running loop passes.
OpKind == IF pc = "queries" THEN "query" ELSE "mutation"

\* parser.py line 400: the sentinel field that is skipped.
IsPlaceholder(field) ==
    field.name = "placeholder" /\ field.type_name = "bool"

\* parent_arguments=parent_args: the caller's list itself, not a copy.
ParentArgumentsShared(parent_args, heap) ==
    [ ref |-> parent_args, heap |-> heap ]

\* parent_arguments=list(parent_args): a new list with the same elements.
ParentArgumentsCopy(parent_args, heap) ==
    [ ref |-> Len(heap) + 1, heap |-> Append(heap, heap[parent_args]) ]

\* accumulated_args = field.arguments: what was inherited so far is lost.
AccumulatedArgsDropInherited(parent_args, field, heap) ==
    Append(heap, heap[field.arguments])

\* accumulated_args = parent_args + field.arguments: a new list.
AccumulatedArgs(parent_args, field, heap) ==
    Append(heap, heap[parent_args] \o heap[field.arguments])

\* field_path = [field.name]: the path walked so far is lost.
FieldPathNameOnly(path, field) == << field.name >>

\* field_path = path + [field.name]
FieldPath(path, field) == Append(path, field.name)

\* The loops over self.ir.queries and self.ir.mutations: a root whose
\* return type is a namespace type starts a traversal with path [op.name]
\* and the root's own arguments list; any other root is passed over.
StartTraversal ==
    /\ pc \in {"queries", "mutations"}
    /\ stack = << >>
    /\ ri <= Len(Roots)
    /\ LET op == Roots[ri] IN
         /\ stack' = IF is_namespace_type(op.return_type)
                     THEN << Frame(op.return_type, OpKind, << op.name >>,
                                   op.arguments) >>
                     ELSE << >>
         /\ ri' = ri + 1
    /\ UNCHANGED << schema, queries, mutations, lists, pc,
                    nested_queries, nested_mutations, pre,
                    query_cache, last, nbuilds, executor,
                    hook_runner, nodes, added >>

\* The loop over the queries is exhausted: the loop over the mutations starts.
NextLoop ==
    /\ pc = "queries"
    /\ stack = << >>
    /\ ri > Len(queries)
    /\ pc' = "mutations"
    /\ ri' = 1
    /\ UNCHANGED << schema, queries, mutations, lists, stack,
                    nested_queries, nested_mutations, pre,
                    query_cache, last, nbuilds, executor,
                    hook_runner, nodes, added >>

\* A namespace-typed field: recurse with the accumulated arguments.  The
\* interpreter raises RecursionError when the call stack is exhausted.
Recurse ==
    /\ stack # << >>
    /\ HasTypeDef(Top.type_name)
    /\ Top.i <= Len(schema.types[Top.type_name])
    /\ LET field == schema.types[Top.type_name][Top.i] IN
         /\ is_namespace_type(field.type_name)
         /\ lists' = AccumulatedArgs(Top.parent_args, field, lists)
         /\ IF Len(stack) >= RecursionLimit
            THEN /\ pc' = "RecursionError"
                 /\ stack' = << >>
            ELSE /\ pc' = pc
                 /\ stack' = Append(Advance,
                                    Frame(field.type_name, Top.op_type,
                                          FieldPath(Top.path, field),
                                          Len(lists')))
    /\ UNCHANGED << schema, queries, mutations, ri,
                    nested_queries, nested_mutations, pre,
                    query_cache, last, nbuilds, executor,
                    hook_runner, nodes, added >>

\* The placeholder sentinel: `continue`.
SkipPlaceholder ==
    /\ stack # << >>
    /\ HasTypeDef(Top.type_name)
    /\ Top.i <= Len(schema.types[Top.type_name])
    /\ LET field == schema.types[Top.type_name][Top.i] IN
         /\ ~is_namespace_type(field.type_name)
         /\ IsPlaceholder(field)
    /\ stack' = Advance
    /\ UNCHANGED << schema, queries, mutations, lists, pc, ri,
                    nested_queries, nested_mutations, pre,
                    query_cache, last, nbuilds, executor,
                    hook_runner, nodes, added >>

\* A leaf field: one IROperation is appended to the results.
EmitLeaf ==
    /\ stack # << >>
    /\ HasTypeDef(Top.type_name)
    /\ Top.i <= Len(schema.types[Top.type_name])
    /\ LET field == schema.types[Top.type_name][Top.i]
           copy  == ParentArgumentsCopy(Top.parent_args, lists)
           op    == IROperation(field.name, Top.op_type, field.arguments,
                                field.type_name, field.is_list,
                                field.is_optional,
                                FieldPath(Top.path, field), copy.ref)
       IN
         /\ ~is_namespace_type(field.type_name)
         /\ ~IsPlaceholder(field)
         /\ lists' = copy.heap
         /\ IF Top.op_type = "query"
            THEN /\ nested_queries' = Append(nested_queries, op)
                 /\ UNCHANGED nested_mutations
            ELSE /\ nested_mutations' = Append(nested_mutations, op)
                 /\ UNCHANGED nested_queries
    /\ stack' = Advance
    /\ UNCHANGED << schema, queries, mutations, pc, ri, pre,
                    query_cache, last, nbuilds, executor,
                    hook_runner, nodes, added >>

\* _traverse_namespace returns: the type is not found, or its fields are
\* exhausted.
Return ==
    /\ stack # << >>
    /\ IF HasTypeDef(Top.type_name)
       THEN Top.i > Len(schema.types[Top.type_name])
       ELSE TRUE
    /\ stack' = Pop
    /\ UNCHANGED << schema, queries, mutations, lists, pc, ri,
                    nested_queries, nested_mutations, pre,
                    query_cache, last, nbuilds, executor,
                    hook_runner, nodes, added >>

\* self.ir.queries.extend(nested_queries);
\* self.ir.mutations.extend(nested_mutations)
Extend ==
    /\ pc = "mutations"
    /\ stack = << >>
    /\ ri > Len(mutations)
    /\ queries' = queries \o nested_queries
    /\ mutations' = mutations \o nested_mutations
    /\ pc' = "done"
    /\ UNCHANGED << schema, lists, ri, stack,
                    nested_queries, nested_mutations, pre,
                    query_cache, last, nbuilds, executor,
                    hook_runner, nodes, added >>

Discover ==
    \/ StartTraversal
    \/ NextLoop
    \/ Recurse
    \/ SkipPlaceholder
    \/ EmitLeaf
    \/ Return
    \/ Extend

InitWith(s) ==
    /\ schema = [ scalars |-> s.scalars, enums |-> s.enums, types |-> s.types,
                  inputs |-> s.inputs, interfaces |-> s.interfaces ]
    /\ queries = s.queries
    /\ mutations = s.mutations
    /\ lists = s.lists
    /\ pc = "queries"
    /\ ri = 1
    /\ stack = << >>
    /\ nested_queries = << >>
    /\ nested_mutations = << >>
    /\ pre = [ queries |-> s.queries, mutations |-> s.mutations,
               lists |-> s.lists ]
    /\ query_cache = [ k \in {} |-> "" ]
    /\ last = [ called |-> FALSE ]
    /\ nbuilds = 0
    /\ executor = [ query_builder |-> FALSE,
                    operations    |-> << >>,
                    requests      |-> << >>,
                    call          |-> [ state |-> "none" ] ]
    /\ hook_runner = [ pre_hooks  |-> << >>,
                       post_hooks |-> << >>,
                       run        |-> [ kind |-> "none" ] ]
    /\ nodes = << [ name |-> "Root", snake_name |-> "root",
                    children |-> [ k \in {} |-> 0 ],
                    operations |-> << >> ] >>
    /\ added = << >>

Init == \E s \in Schemas : InitWith(s)

\* Discovery alone, over the schemas above and the family of small schemas.
\* parse_all calls _discover_nested_operations once and runs it to its end:
\* a step that can be taken is taken.
InitDiscovery == \E s \in Schemas \cup SmallSchemas : InitWith(s)

SpecDiscovery ==
    InitDiscovery /\ [][Discover]_vars /\ WF_vars(Discover)


---------------------------------------------------------------------------
(* Text: str methods and the regular expressions of _to_snake_case         *)

UpperCase == "ABCDEFGHIJKLMNOPQRSTUVWXYZ"

LowerCase == "abcdefghijklmnopqrstuvwxyz"

Digits == "0123456789"

\* The 1-character string at position i of s.
At(s, i) == SubSeq(s, i, i)

CharsOf(class) == { At(class, k) : k \in 1..Len(class) }

\* [A-Z], [a-z] and [0-9] of the regular expressions.
UpperChars == CharsOf(UpperCase)

LowerChars == CharsOf(LowerCase)

DigitChars == CharsOf(Digits)

IsUpper(c) == c \in UpperChars

IsLower(c) == c \in LowerChars

IsDigit(c) == c \in DigitChars

LowerOf ==
    [ c \in UpperChars |->
        At(LowerCase, CHOOSE k \in 1..Len(UpperCase) : At(UpperCase, k) = c) ]

UpperOf ==
    [ c \in LowerChars |->
        At(UpperCase, CHOOSE k \in 1..Len(LowerCase) : At(LowerCase, k) = c) ]

\* str.lower() of one character.
LowerChar(c) == IF IsUpper(c) THEN LowerOf[c] ELSE c

\* str.upper() of one character.
UpperChar(c) == IF IsLower(c) THEN UpperOf[c] ELSE c

RECURSIVE LowerFrom(_, _)
LowerFrom(s, i) ==
    IF i > Len(s) THEN "" ELSE LowerChar(At(s, i)) \o LowerFrom(s, i + 1)

\* str.lower()
Lower(s) == LowerFrom(s, 1)

\* str.capitalize(): the first character upper-cased, the rest lower-cased.
Capitalize(s) ==
    IF s = "" THEN "" ELSE UpperChar(At(s, 1)) \o LowerFrom(s, 2)

RECURSIVE Join(_, _)
\* sep.join(parts)
Join(parts, sep) ==
    IF parts = << >> THEN ""
    ELSE IF Len(parts) = 1 THEN parts[1]
    ELSE parts[1] \o sep \o Join(Tail(parts), sep)

RECURSIVE SplitFrom(_, _, _)
\* The parts of s from position start on: up to the next separator, then
\* the parts after it.
SplitFrom(s, sep, start) ==
    LET seps == { i \in start..Len(s) : At(s, i) = sep } IN
        IF seps = {} THEN << SubSeq(s, start, Len(s)) >>
        ELSE LET i == CHOOSE i \in seps : \A k \in seps : i <= k IN
                 << SubSeq(s, start, i - 1) >> \o SplitFrom(s, sep, i + 1)

\* s.split(sep) for a 1-character separator.
Split(s, sep) == SplitFrom(s, sep, 1)

RECURSIVE LowerRunEnd(_, _)
\* The last position of the run of lower-case letters that starts at i.
LowerRunEnd(s, i) ==
    IF i < Len(s) /\ IsLower(At(s, i + 1)) THEN LowerRunEnd(s, i + 1) ELSE i

RECURSIVE SnakeFirst(_, _)
\* re.sub('(.)([A-Z][a-z]+)', r'\1_\2', name), from position i on.
SnakeFirst(s, i) ==
    IF i > Len(s) THEN ""
    ELSE IF /\ i + 2 <= Len(s)
            /\ IsUpper(At(s, i + 1))
            /\ IsLower(At(s, i + 2))
         THEN LET e == LowerRunEnd(s, i + 2) IN
                  At(s, i) \o "_" \o SubSeq(s, i + 1, e) \o SnakeFirst(s, e + 1)
         ELSE At(s, i) \o SnakeFirst(s, i + 1)

RECURSIVE SnakeSecond(_, _)
\* re.sub('([a-z0-9])([A-Z])', r'\1_\2', s1), from position i on.
SnakeSecond(s, i) ==
    IF i > Len(s) THEN ""
    ELSE IF /\ i + 1 <= Len(s)
            /\ IsLower(At(s, i)) \/ IsDigit(At(s, i))
            /\ IsUpper(At(s, i + 1))
         THEN At(s, i) \o "_" \o At(s, i + 1) \o SnakeSecond(s, i + 2)
         ELSE At(s, i) \o SnakeSecond(s, i + 1)

\* IROperation._to_snake_case
to_snake_case(name) == Lower(SnakeSecond(SnakeFirst(name, 1), 1))

\* IROperation.full_name: the snake-cased path segments joined by "_".
full_name(op) ==
    Join([ i \in DOMAIN op.path |-> to_snake_case(op.path[i]) ], "_")

\* QueryBuilder._to_pascal_case
to_pascal_case(snake_str) ==
    LET words == Split(snake_str, "_") IN
        Join([ i \in DOMAIN words |-> Capitalize(words[i]) ], "")

StripSuffix(name, suffix) ==
    IF EndsWith(name, suffix)
    THEN SubSeq(name, 1, Len(name) - Len(suffix))
    ELSE name

\* QueryBuilder._type_to_var_suffix
type_to_var_suffix(type_name) ==
    LET name == StripSuffix(StripSuffix(StripSuffix(type_name, "Input"),
                                        "Mutation"), "Payload")
    IN  IF name = "" THEN "arg"
        ELSE LowerChar(At(name, 1)) \o SubSeq(name, 2, Len(name))

---------------------------------------------------------------------------
(* QueryBuilder                                                            *)

\* FieldSelection.max_depth
DefaultMaxDepth == 10

FieldSelection(mode, custom_fields, max_depth) ==
    [ mode |-> mode, custom_fields |-> custom_fields, max_depth |-> max_depth ]

\* QueryBuilder.__init__: the names that are treated as scalars.
ScalarTypes ==
    { "String", "Int", "Float", "Boolean", "ID",
      "DateTime", "Date", "Time", "JSON", "Long", "Any",
      "IPAddress", "Asn", "Domain", "Email", "Fqdn",
      "GlobalIPRange", "Hostname", "IPSubnet", "Mac",
      "Port", "SID", "Sha256", "Url", "CountryCode" }
    \cup schema.scalars \cup schema.enums

is_scalar(type_name) == type_name \in ScalarTypes

\* IRSchema.get_type_by_name: types, then inputs, then interfaces.
get_type_by_name(name) ==
    IF name \in DOMAIN schema.types
    THEN [ found |-> TRUE, name |-> name, fields |-> schema.types[name] ]
    ELSE IF name \in DOMAIN schema.inputs
    THEN [ found |-> TRUE, name |-> name, fields |-> schema.inputs[name] ]
    ELSE IF name \in DOMAIN schema.interfaces
    THEN [ found |-> TRUE, name |-> name, fields |-> schema.interfaces[name] ]
    ELSE [ found |-> FALSE, name |-> name, fields |-> << >> ]

\* What a call ends with: the lines it returns, or the exception it raises.
Returned(lines) == [ err |-> "", lines |-> lines ]

Raised(err) == [ err |-> err, lines |-> << >> ]

RECURSIVE Indent(_)
\* "  " * depth
Indent(depth) == IF depth <= 0 THEN "" ELSE "  " \o Indent(depth - 1)

\* Every argument keeps its own name as its variable name.
VariableMappingPlain(args, i, seen_names) ==
    [ k \in 1..(Len(args) - i + 1) |->
        [ arg |-> args[k + i - 1], var_name |-> args[k + i - 1].name ] ]

\* seen_names holds the argument names met, not the variable names given.
RECURSIVE VariableMappingArgNames(_, _, _)
VariableMappingArgNames(args, i, seen_names) ==
    IF i > Len(args) THEN << >>
    ELSE LET arg == args[i]
             var_name ==
                 IF arg.name \in seen_names
                 THEN arg.name \o "_" \o type_to_var_suffix(arg.type_name)
                 ELSE arg.name
         IN  << [ arg |-> arg, var_name |-> var_name ] >>
                 \o VariableMappingArgNames(args, i + 1,
                                            seen_names \cup { arg.name })

RECURSIVE VariableMapping(_, _, _)
VariableMapping(args, i, seen_names) ==
    IF i > Len(args) THEN << >>
    ELSE LET arg == args[i]
             var_name ==
                 IF arg.name \in seen_names
                 THEN arg.name \o "_" \o type_to_var_suffix(arg.type_name)
                 ELSE arg.name
         IN  << [ arg |-> arg, var_name |-> var_name ] >>
                 \o VariableMapping(args, i + 1, seen_names \cup { var_name })

\* QueryBuilder._get_variable_mapping: (arg, variable name) in the order of
\* all_arguments; a name seen before gets a suffix made from the type name.
get_variable_mapping(operation) ==
    VariableMapping(all_arguments(operation, lists), 1, {})

\* QueryBuilder._build_variable_declarations
build_variable_declarations(operation) ==
    LET var_mapping == get_variable_mapping(operation)
        Decl(m) ==
            LET listed == IF m.arg.is_list
                          THEN "[" \o m.arg.type_name \o "]"
                          ELSE m.arg.type_name
                type_str == IF m.arg.is_optional THEN listed
                            ELSE listed \o "!"
            IN  "$" \o m.var_name \o ": " \o type_str
    IN  Join([ i \in DOMAIN var_mapping |-> Decl(var_mapping[i]) ], ", ")

\* var_name_by_arg.get(id(arg), arg.name): the dict holds, for each object
\* identity, the last name that the mapping gave it.
VarNameByArg(var_mapping, arg) ==
    LET hits == { i \in DOMAIN var_mapping : var_mapping[i].arg.id = arg.id }
    IN  IF hits = {} THEN arg.name
        ELSE var_mapping[CHOOSE i \in hits : \A k \in hits : k <= i].var_name

\* QueryBuilder._build_field_arguments: the argument name as variable name.
build_field_arguments(args, var_mapping) ==
    IF args = << >> THEN ""
    ELSE "(" \o Join([ i \in DOMAIN args |->
                         args[i].name \o ": $" \o args[i].name ], ", ")
             \o ")"

\* QueryBuilder._build_field_arguments_with_mapping
build_field_arguments_with_mapping(args, var_mapping) ==
    IF args = << >> THEN ""
    ELSE "(" \o Join([ i \in DOMAIN args |->
                         args[i].name \o ": $"
                             \o VarNameByArg(var_mapping, args[i]) ], ", ")
             \o ")"

\* The marker followed by every field of the type.
build_minimal_fields_every(type_def, indent) ==
    Returned(<< indent \o "__typename" >>
                 \o [ i \in DOMAIN type_def.fields |->
                        indent \o type_def.fields[i].name ])

\* QueryBuilder._build_minimal_fields
build_minimal_fields(type_def, indent) ==
    LET named == SelectSeq(type_def.fields,
                           LAMBDA f : f.name \in { "id", "ID", "status", "name" })
    IN  Returned(<< indent \o "__typename" >>
                     \o [ i \in DOMAIN named |-> indent \o named[i].name ])

\* The keys of field_tree: the first part of every custom field path.
TreeKeys(custom_fields) ==
    { Split(custom_fields[i], ".")[1] : i \in DOMAIN custom_fields }

\* "*" in subfields, for subfields = field_tree.get(name, {}) replaced by
\* {"*": True} when "*" is a key of field_tree.
SubfieldsHaveStar(custom_fields, name) ==
    \/ "*" \in TreeKeys(custom_fields)
    \/ \E i \in DOMAIN custom_fields :
         LET parts == Split(custom_fields[i], ".") IN
             Len(parts) >= 2 /\ parts[1] = name /\ parts[2] = "*"

\* sub_custom: the paths under `name` with the prefix cut off, or ["*"].
SubCustom(custom_fields, name) ==
    LET under == SelectSeq(custom_fields,
                           LAMBDA f : StartsWith(f, name \o "."))
        cut   == [ i \in DOMAIN under |->
                     SubSeq(under[i], Len(name) + 2, Len(under[i])) ]
    IN  IF cut # << >> THEN cut
        ELSE IF SubfieldsHaveStar(custom_fields, name) THEN << "*" >>
        ELSE << >>

RECURSIVE build_custom_fields(_, _, _, _), CustomFieldLines(_, _, _, _, _)

\* The loop `for ir_field in type_def.fields` of _build_custom_fields.
CustomFieldLines(type_def, custom_fields, indent, calls, j) ==
    IF j > Len(type_def.fields) THEN Returned(<< >>)
    ELSE LET ir_field == type_def.fields[j]
             keys     == TreeKeys(custom_fields)
             rest     == CustomFieldLines(type_def, custom_fields, indent,
                                          calls, j + 1)
         IN  IF ~(ir_field.name \in keys \/ "*" \in keys) THEN rest
             ELSE IF is_scalar(ir_field.type_name)
             THEN IF rest.err # "" THEN rest
                  ELSE Returned(<< indent \o ir_field.name >> \o rest.lines)
             ELSE LET nested_type == get_type_by_name(ir_field.type_name)
                      inner ==
                          IF nested_type.found
                          THEN build_custom_fields(
                                   nested_type,
                                   SubCustom(custom_fields, ir_field.name),
                                   indent \o "  ", calls + 1)
                          ELSE Returned(<< >>)
                  IN  IF inner.err # "" THEN inner
                      ELSE IF rest.err # "" THEN rest
                      ELSE Returned(<< indent \o ir_field.name \o " {" >>
                                        \o inner.lines
                                        \o << indent \o "}" >>
                                        \o rest.lines)

\* QueryBuilder._build_custom_fields.  It recurses into every matched
\* object-typed field with no test of the depth; `calls` counts the nested
\* activations, and the interpreter raises RecursionError at its limit.
build_custom_fields(type_def, custom_fields, indent, calls) ==
    IF calls > RecursionLimit THEN Raised("RecursionError")
    ELSE LET body == CustomFieldLines(type_def, custom_fields, indent, calls, 1)
         IN  IF body.err # "" THEN body
             ELSE Returned(<< Join(<< indent \o "__typename" >> \o body.lines,
                                   "\n") >>)

RECURSIVE build_all_fields(_, _, _, _, _), AllFieldLines(_, _, _, _, _, _)

\* The loop `for ir_field in type_def.fields` of _build_all_fields.  Its
\* else branch (line 331) reads `field.name`, where `field` is the function
\* dataclasses.field imported by the module: AttributeError.
AllFieldLines(type_def, indent, depth, fields, visited, j) ==
    IF j > Len(type_def.fields) THEN Returned(<< >>)
    ELSE LET ir_field == type_def.fields[j]
             rest     == AllFieldLines(type_def, indent, depth, fields,
                                       visited, j + 1)
         IN  IF is_scalar(ir_field.type_name)
             THEN IF rest.err # "" THEN rest
                  ELSE Returned(<< indent \o ir_field.name >> \o rest.lines)
             ELSE LET nested_type == get_type_by_name(ir_field.type_name) IN
                  IF nested_type.found /\ depth < fields.max_depth
                  THEN LET inner == build_all_fields(nested_type,
                                                     indent \o "  ",
                                                     depth + 1, fields,
                                                     visited)
                       IN  IF inner.err # "" THEN inner
                           ELSE IF rest.err # "" THEN rest
                           ELSE Returned(<< indent \o ir_field.name \o " {" >>
                                             \o inner.lines
                                             \o << indent \o "}" >>
                                             \o rest.lines)
                  ELSE Raised("AttributeError")

\* _build_all_fields without the test of the visited set.
build_all_fields_unvisited(type_def, indent, depth, fields, visited) ==
    LET body == AllFieldLines(type_def, indent, depth, fields, visited, 1)
    IN  IF body.err # "" THEN body
        ELSE IF body.lines = << >>
        THEN Returned(<< indent \o "__typename" >>)
        ELSE Returned(<< Join(body.lines, "\n") >>)

\* QueryBuilder._build_all_fields
build_all_fields(type_def, indent, depth, fields, visited) ==
    IF type_def.name \in visited
    THEN Returned(<< indent \o "__typename" >>)
    ELSE LET body == AllFieldLines(type_def, indent, depth, fields,
                                   visited \cup { type_def.name }, 1)
         IN  IF body.err # "" THEN body
             ELSE IF body.lines = << >>
             THEN Returned(<< indent \o "__typename" >>)
             ELSE Returned(<< Join(body.lines, "\n") >>)

\* QueryBuilder._build_return_fields: one string, or an exception.
build_return_fields(type_name, fields, depth) ==
    LET indent   == Indent(depth)
        type_def == get_type_by_name(type_name)
    IN  IF depth > fields.max_depth
        THEN Returned(<< indent \o "__typename" >>)
        ELSE IF is_scalar(type_name) THEN Returned(<< "" >>)
        ELSE IF ~type_def.found
        THEN Returned(<< indent \o "__typename" >>)
        ELSE IF fields.mode = "minimal"
        THEN LET r == build_minimal_fields(type_def, indent)
             IN  Returned(<< Join(r.lines, "\n") >>)
        ELSE IF fields.mode = "custom"
        THEN build_custom_fields(type_def, fields.custom_fields, indent, 1)
        ELSE build_all_fields(type_def, indent, depth, fields, {})

RECURSIVE WrapperLines(_, _, _, _)
\* The loop `for i, segment in enumerate(path)` of _build_operation_body;
\* i counts from 0 as in the source.
WrapperLines(operation, var_mapping, i, parent_arg_idx) ==
    LET path        == operation.path
        parent_args == lists[operation.parent_arguments]
        op_args     == lists[operation.arguments]
    IN  IF i >= Len(path) THEN << >>
        ELSE LET is_namespace == i < Len(path) - 1
                 consumes     == is_namespace /\ parent_arg_idx < Len(parent_args)
                 level_args   ==
                     IF is_namespace
                     THEN IF consumes
                          THEN << parent_args[parent_arg_idx + 1] >>
                          ELSE << >>
                     ELSE op_args
                 args_str == build_field_arguments_with_mapping(level_args,
                                                                var_mapping)
             IN  << Indent(i + 1) \o path[i + 1] \o args_str \o " {" >>
                     \o WrapperLines(operation, var_mapping, i + 1,
                                     IF consumes THEN parent_arg_idx + 1
                                     ELSE parent_arg_idx)

\* Closing braces written in the order of the opening lines.
ClosingLinesForward(path) ==
    [ k \in 1..Len(path) |-> Indent(k) \o "}" ]

\* The loop `for i in range(len(path) - 1, -1, -1)`.
ClosingLines(path) ==
    [ k \in 1..Len(path) |-> Indent(Len(path) - k + 1) \o "}" ]

\* QueryBuilder._build_operation_body
build_operation_body(operation, fields) ==
    LET var_mapping   == get_variable_mapping(operation)
        return_fields == build_return_fields(operation.return_type, fields,
                                             Len(operation.path) + 1)
    IN  IF return_fields.err # "" THEN return_fields
        ELSE Returned(<< Join(WrapperLines(operation, var_mapping, 0, 0)
                                  \o return_fields.lines
                                  \o ClosingLines(operation.path), "\n") >>)

\* cache_key = f"{operation.full_name}:{fields.mode.value}"
CacheKey(operation, fields) == full_name(operation) \o ":" \o fields.mode

\* The body of QueryBuilder.build after the cache test: the document, or the
\* exception that building it raises.
BuildQuery(operation, fields) ==
    LET var_decls == build_variable_declarations(operation)
        body      == build_operation_body(operation, fields)
        op_name   == to_pascal_case(full_name(operation))
    IN  IF body.err # "" THEN [ err |-> body.err, query |-> "" ]
        ELSE [ err   |-> "",
               query |-> operation.operation_type \o " " \o op_name
                            \o "(" \o var_decls \o ") {\n"
                            \o body.lines[1] \o "\n}" ]

\* The selections a caller passes: FieldSelection.ALL, ALL selections with
\* max_depth=1 and max_depth=2, FieldSelection.MINIMAL, select("id"),
\* select("*") and select("*", "rule.name").
Selections ==
    { FieldSelection("all", << >>, DefaultMaxDepth),
      FieldSelection("all", << >>, 1),
      FieldSelection("all", << >>, 2),
      FieldSelection("minimal", << >>, DefaultMaxDepth),
      FieldSelection("custom", << "id" >>, DefaultMaxDepth),
      FieldSelection("custom", << "*" >>, DefaultMaxDepth),
      FieldSelection("custom", << "*", "rule.name" >>, DefaultMaxDepth) }

\* Calls of build that one run of the model makes on its QueryBuilder.
MaxBuilds == 2

\* IRSchema.all_operations
all_operations == queries \o mutations

\* QueryBuilder.build(operation, fields) on the builder of the run: its
\* effect on the cache, and the outcome of the call.  A CUSTOM call neither
\* reads nor writes the cache; an exception leaves the cache as it was.
BuildOn(operation, fields) ==
    /\ pc = "done"
    /\ nbuilds < MaxBuilds
    /\ LET cache_key == CacheKey(operation, fields)
           hit   == cache_key \in DOMAIN query_cache /\ fields.mode # "custom"
           built == IF hit
                    THEN [ err |-> "", query |-> query_cache[cache_key] ]
                    ELSE BuildQuery(operation, fields)
       IN  /\ query_cache' =
                  IF ~hit /\ built.err = "" /\ fields.mode # "custom"
                  THEN [ k \in DOMAIN query_cache \cup { cache_key } |->
                           IF k = cache_key THEN built.query
                           ELSE query_cache[k] ]
                  ELSE query_cache
           /\ last' = [ called |-> TRUE, operation |-> operation,
                        fields |-> fields, hit |-> hit,
                        err |-> built.err, query |-> built.query ]
    /\ nbuilds' = nbuilds + 1

\* A caller calls QueryBuilder.build(operation, fields) once the schema is
\* parsed.
Build(operation, fields) ==
    /\ BuildOn(operation, fields)
    /\ UNCHANGED << schema, queries, mutations, lists, pc, ri, stack,
                    nested_queries, nested_mutations, pre, executor,
                    hook_runner, nodes, added >>

BuildCall ==
    \E i \in DOMAIN all_operations, fields \in Selections :
        Build(all_operations[i], fields)

Next == Discover \/ BuildCall

Spec == Init /\ [][Next]_vars

\* Field lists with a selector that names no field: select("id", "nosuch"),
\* select("nosuch"), select("rule.nosuch"), select("*", "rule.nosuch").
CustomSelections ==
    { FieldSelection("custom", << "id", "nosuch" >>, DefaultMaxDepth),
      FieldSelection("custom", << "nosuch" >>, DefaultMaxDepth),
      FieldSelection("custom", << "rule.nosuch" >>, DefaultMaxDepth),
      FieldSelection("custom", << "*", "rule.nosuch" >>, DefaultMaxDepth) }

BuildCustom ==
    \E i \in DOMAIN all_operations, fields \in CustomSelections :
        Build(all_operations[i], fields)

SpecCustom == Init /\ [][Discover \/ BuildCustom]_vars

\* Discovery on a schema of the argument family or on one of the two
\* schemas with nested namespaces, then calls of
\* build(operation, FieldSelection.MINIMAL).
InitVariables ==
    \E s \in ArgumentSchemas \cup { SchemaFirewall, SchemaSite } : InitWith(s)

BuildMinimal ==
    \E i \in DOMAIN all_operations :
        Build(all_operations[i],
              FieldSelection("minimal", << >>, DefaultMaxDepth))

SpecVariables == InitVariables /\ [][Discover \/ BuildMinimal]_vars

---------------------------------------------------------------------------
(* GraphQLExecutor                                                         *)

\* JSON values of a response: None, a dict, a list, a scalar.
None == [ none |-> TRUE ]

Dict(items) == [ dict |-> items ]

List(elements) == [ list |-> elements ]

Scalar(value) == [ scalar |-> value ]

IsNone(v) == DOMAIN v = { "none" }

\* isinstance(v, dict)
IsDict(v) == DOMAIN v = { "dict" }

\* v.get(key) of a dict v
DictGet(v, key) == IF key \in DOMAIN v.dict THEN v.dict[key] ELSE None

RECURSIVE ExtractFromKeepLast(_, _, _)
\* The walk that keeps the value it has reached when a step fails.
ExtractFromKeepLast(result, path, i) ==
    IF i > Len(path) THEN result
    ELSE IF IsDict(result) /\ path[i] \in DOMAIN result.dict
    THEN ExtractFromKeepLast(result.dict[path[i]], path, i + 1)
    ELSE result

RECURSIVE ExtractFrom(_, _, _)
\* The loop `for segment in path` of _extract_path, from segment i on.
ExtractFrom(result, path, i) ==
    IF i > Len(path) THEN result
    ELSE IF IsNone(result) THEN None
    ELSE IF IsDict(result)
    THEN ExtractFrom(DictGet(result, path[i]), path, i + 1)
    ELSE None

\* GraphQLExecutor._extract_path
extract_path(data, path) == ExtractFrom(data, path, 1)

\* _init_schema: `self._operations[tuple(op.path)] = op` for the queries and
\* then the mutations; a later operation replaces an earlier one of the
\* same path.
OperationsByPath ==
    LET ops == all_operations IN
        [ path \in { ops[i].path : i \in DOMAIN ops } |->
            ops[CHOOSE i \in DOMAIN ops :
                    /\ ops[i].path = path
                    /\ \A k \in DOMAIN ops : ops[k].path = path => k <= i] ]

\* GraphQLExecutor._init_schema(schema), with the parsed schema: a new
\* QueryBuilder is attached and the catalogue is filled.
InitSchema ==
    /\ pc = "done"
    /\ ~executor.query_builder
    /\ executor' = [ executor EXCEPT !.query_builder = TRUE,
                                     !.operations = OperationsByPath ]
    /\ query_cache' = [ k \in {} |-> "" ]
    /\ UNCHANGED << schema, queries, mutations, lists, pc, ri, stack,
                    nested_queries, nested_mutations, pre, last, nbuilds,
                    hook_runner, nodes, added >>

\* Requests that one run of the model sends.
MaxRequests == 1

\* Every failure of execute_operation signalled as a ValueError.
CallRaisedValueError(operation_path, fields, err) ==
    [ state |-> "raised", path |-> operation_path, fields |-> fields,
      err |-> "ValueError", result |-> None ]

\* An execute_operation call that has ended with an exception.
CallRaised(operation_path, fields, err) ==
    [ state |-> "raised", path |-> operation_path, fields |-> fields,
      err |-> err, result |-> None ]

\* GraphQLExecutor.execute_operation(operation_path, variables, fields) up
\* to `await self.execute(query, variables)`: the two checks, the build of
\* the document on the attached builder, and the request.
ExecuteOperation(operation_path, fields) ==
    /\ executor.call.state # "awaiting"
    /\ \/ /\ ~executor.query_builder
          /\ executor' = [ executor EXCEPT !.call =
                 CallRaised(operation_path, fields, "RuntimeError") ]
          /\ UNCHANGED << query_cache, last, nbuilds >>
       \/ /\ executor.query_builder
          /\ operation_path \notin DOMAIN executor.operations
          /\ executor' = [ executor EXCEPT !.call =
                 CallRaised(operation_path, fields, "ValueError") ]
          /\ UNCHANGED << query_cache, last, nbuilds >>
       \/ /\ executor.query_builder
          /\ operation_path \in DOMAIN executor.operations
          /\ Len(executor.requests) < MaxRequests
          /\ BuildOn(executor.operations[operation_path], fields)
          /\ executor' =
                 IF last'.err # ""
                 THEN [ executor EXCEPT !.call =
                          CallRaised(operation_path, fields, last'.err) ]
                 ELSE [ executor EXCEPT
                          !.requests = Append(@, last'.query),
                          !.call = [ state |-> "awaiting",
                                     path |-> operation_path,
                                     fields |-> fields,
                                     err |-> "", result |-> None ] ]
    /\ UNCHANGED << schema, queries, mutations, lists, pc, ri, stack,
                    nested_queries, nested_mutations, pre,
                    hook_runner, nodes, added >>

\* A dict that holds `leaf` under the nested keys of path.
RECURSIVE Nest(_, _)
Nest(path, leaf) ==
    IF path = << >> THEN leaf
    ELSE Dict(path[1] :> Nest(Tail(path), leaf))

\* All of a sequence but its last element.
Front(path) == SubSeq(path, 1, Len(path) - 1)

\* The `data` of the responses that a server may give to a request for
\* path: the full nesting down to an object, to null or to a list; the
\* nesting without its last key; a list or a scalar where the last
\* container should be; null.
Datas(path) ==
    { Nest(path, Dict("id" :> Scalar("x"))),
      Nest(path, None),
      Nest(path, List(<< Dict("id" :> Scalar("x")) >>)),
      Nest(Front(path), Dict(<< >>)),
      Nest(Front(path), List(<< Dict(path[Len(path)] :> Scalar("x")) >>)),
      Nest(Front(path), Scalar("x")),
      None }

\* What comes back for a request: an HTTP error status, a body with
\* "errors", or a body with this "data".
Responses(path) ==
    { [ kind |-> "status", data |-> None ],
      [ kind |-> "errors", data |-> None ] }
    \cup { [ kind |-> "data", data |-> d ] : d \in Datas(path) }

\* The rest of execute_operation, when the response has arrived: execute
\* raises for an error status or for "errors" in the body, else the result
\* is extracted from the data at the operation path.
Receive(response) ==
    /\ executor.call.state = "awaiting"
    /\ executor' = [ executor EXCEPT !.call =
           IF response.kind = "status"
           THEN [ @ EXCEPT !.state = "raised", !.err = "HTTPStatusError" ]
           ELSE IF response.kind = "errors"
           THEN [ @ EXCEPT !.state = "raised", !.err = "GraphQLError" ]
           ELSE [ state  |-> "returned", path |-> @.path,
                  fields |-> @.fields, err |-> "",
                  data   |-> response.data,
                  result |-> extract_path(response.data, @.path) ] ]
    /\ UNCHANGED << schema, queries, mutations, lists, pc, ri, stack,
                    nested_queries, nested_mutations, pre,
                    query_cache, last, nbuilds,
                    hook_runner, nodes, added >>

\* The paths a caller asks for: those of the operations, and one that no
\* operation has.
CalledPaths ==
    { all_operations[i].path : i \in DOMAIN all_operations }
        \cup { << "no", "such", "operation" >> }

\* The selections a caller of execute_operation passes: the default
\* FieldSelection.ALL, or FieldSelection.MINIMAL.
ExecutorSelections ==
    { FieldSelection("all", << >>, DefaultMaxDepth),
      FieldSelection("minimal", << >>, DefaultMaxDepth) }

ExecuteOperationCall ==
    \E operation_path \in CalledPaths, fields \in ExecutorSelections :
        ExecuteOperation(operation_path, fields)

ReceiveResponse ==
    /\ executor.call.state = "awaiting"
    /\ \E response \in Responses(executor.call.path) : Receive(response)

\* An executor over the parsed schema: attached at some time, called at any
\* time.
SpecExecutor ==
    Init /\ [][Discover \/ InitSchema \/ ExecuteOperationCall
                  \/ ReceiveResponse]_vars

---------------------------------------------------------------------------
(* A client that mutates the parent_arguments list of a discovered         *)
(* operation in place (list.append / list.pop), after discovery.           *)

\* Longest parent_arguments list a client grows.
MaxArgs == 3

ExtraArgument == IRArgument(0, "extra", "String", FALSE, TRUE)

\* The operations that discovery appended to the schema's lists.
Appended(ops, before) == SubSeq(ops, Len(before) + 1, Len(ops))

MutateParentArguments ==
    /\ pc = "done"
    /\ \E op \in { queries[i] : i \in Len(pre.queries) + 1 .. Len(queries) }
               \cup { mutations[i] :
                        i \in Len(pre.mutations) + 1 .. Len(mutations) } :
         LET ref == op.parent_arguments IN
           \/ /\ Len(lists[ref]) < MaxArgs
              /\ lists' = [ lists EXCEPT ![ref] = Append(@, ExtraArgument) ]
           \/ /\ lists[ref] # << >>
              /\ lists' = [ lists EXCEPT
                              ![ref] = SubSeq(@, 1, Len(@) - 1) ]
    /\ UNCHANGED << schema, queries, mutations, pc, ri, stack,
                    nested_queries, nested_mutations, pre,
                    query_cache, last, nbuilds, executor,
                    hook_runner, nodes, added >>

SpecMutate == Init /\ [][Discover \/ MutateParentArguments]_vars

----------------------------------------------------------------------------
(* HookRunner (hooks.py).  A hook is a record naming its class and holding *)
(* the attributes its constructor stores; None is the empty string, which  *)
(* the truth tests of _should_include treat alike.                         *)

\* Hooks that one HookRunner list holds.
MaxHooks == 2

FilterTypesHook(exclude_prefix, exclude_suffix, include_prefix, include_suffix) ==
    [ hook |-> "FilterTypesHook",
      exclude_prefix |-> exclude_prefix, exclude_suffix |-> exclude_suffix,
      include_prefix |-> include_prefix, include_suffix |-> include_suffix ]

AddHeaderHook(header) == [ hook |-> "AddHeaderHook", header |-> header ]

\* The pre-hook of test_multiple_pre_hooks: ir.type_count = len(ir.types).
CountTypesHook == [ hook |-> "CountTypesHook" ]

\* FilterTypesHook._should_include(name)
should_include(hook, name) ==
    IF hook.exclude_prefix # "" /\ StartsWith(name, hook.exclude_prefix)
    THEN FALSE
    ELSE IF hook.exclude_suffix # "" /\ EndsWith(name, hook.exclude_suffix)
    THEN FALSE
    ELSE IF hook.include_prefix # "" /\ ~StartsWith(name, hook.include_prefix)
    THEN FALSE
    ELSE IF hook.include_suffix # "" /\ ~EndsWith(name, hook.include_suffix)
    THEN FALSE
    ELSE TRUE

\* The dict comprehension of FilterTypesHook.pre_generate; the key of an
\* entry is the name of its value.
Filtered(hook, dict) ==
    [ k \in { n \in DOMAIN dict : should_include(hook, n) } |-> dict[k] ]

\* hook.pre_generate(ir).  A hook without the method is not a pre-hook; an
\* AddHeaderHook is never registered as one.
pre_generate(hook, ir) ==
    IF hook.hook = "FilterTypesHook"
    THEN [ ir EXCEPT !.types  = Filtered(hook, @),
                     !.inputs = Filtered(hook, @),
                     !.enums  = { n \in @ : should_include(hook, n) } ]
    ELSE [ ir EXCEPT !.type_count = << Cardinality(DOMAIN ir.types) >> ]

\* AddHeaderHook.post_generate(_filename, content)
post_generate(hook, filename, content) ==
    LET header == IF ~EndsWith(hook.header, "\n")
                  THEN hook.header \o "\n\n"
                  ELSE hook.header \o "\n"
    IN  header \o content

\* The loop of run_pre_hooks from its i-th hook on.
RECURSIVE RunPreFrom(_, _, _)
RunPreFrom(pre_hooks, i, ir) ==
    IF i > Len(pre_hooks) THEN ir
    ELSE RunPreFrom(pre_hooks, i + 1, pre_generate(pre_hooks[i], ir))

\* run_pre_hooks with every hook handed the IR the runner was given.
run_pre_hooks_unthreaded(pre_hooks, ir) ==
    IF pre_hooks = << >> THEN ir
    ELSE pre_generate(pre_hooks[Len(pre_hooks)], ir)

\* HookRunner.run_pre_hooks(ir)
run_pre_hooks(pre_hooks, ir) == RunPreFrom(pre_hooks, 1, ir)

\* The loop of run_post_hooks from its i-th hook on.
RECURSIVE RunPostFrom(_, _, _, _)
RunPostFrom(post_hooks, i, filename, content) ==
    IF i > Len(post_hooks) THEN content
    ELSE RunPostFrom(post_hooks, i + 1, filename,
                     post_generate(post_hooks[i], filename, content))

\* HookRunner.run_post_hooks(filename, content)
run_post_hooks(post_hooks, filename, content) ==
    RunPostFrom(post_hooks, 1, filename, content)

\* The hooks the clients of the model register.
PreHooks ==
    { FilterTypesHook("", "Mutations", "", ""),
      FilterTypesHook("", "", "", "Queries"),
      CountTypesHook }

PostHooks == { AddHeaderHook("# Line 1"), AddHeaderHook("# Line 0\n") }

\* The IRSchema handed to the hooks: the parsed schema, without the
\* attribute type_count.
HookIR ==
    [ types |-> schema.types, inputs |-> schema.inputs,
      enums |-> schema.enums, type_count |-> << >> ]

Contents == { "", "code" }

HookUnchanged ==
    UNCHANGED << schema, queries, mutations, lists, pc, ri, stack,
                 nested_queries, nested_mutations, pre,
                 query_cache, last, nbuilds, executor, nodes, added >>

\* HookRunner.add_pre_hook(hook)
add_pre_hook(hook) ==
    /\ Len(hook_runner.pre_hooks) < MaxHooks
    /\ hook_runner' = [ hook_runner EXCEPT !.pre_hooks = Append(@, hook) ]
    /\ HookUnchanged

\* HookRunner.add_post_hook(hook)
add_post_hook(hook) ==
    /\ Len(hook_runner.post_hooks) < MaxHooks
    /\ hook_runner' = [ hook_runner EXCEPT !.post_hooks = Append(@, hook) ]
    /\ HookUnchanged

\* A call of run_pre_hooks(ir) and what it returned.
RunPreHooks(ir) ==
    /\ hook_runner' = [ hook_runner EXCEPT !.run =
           [ kind |-> "pre", hooks |-> hook_runner.pre_hooks, input |-> ir,
             output |-> run_pre_hooks(hook_runner.pre_hooks, ir) ] ]
    /\ HookUnchanged

\* A call of run_post_hooks(filename, content) and what it returned.
RunPostHooks(filename, content) ==
    /\ hook_runner' = [ hook_runner EXCEPT !.run =
           [ kind |-> "post", hooks |-> hook_runner.post_hooks,
             input |-> content,
             output |-> run_post_hooks(hook_runner.post_hooks,
                                       filename, content) ] ]
    /\ HookUnchanged

AddPreHook == \E hook \in PreHooks : add_pre_hook(hook)

AddPostHook == \E hook \in PostHooks : add_post_hook(hook)

RunPre == RunPreHooks(HookIR)

RunPost == \E content \in Contents : RunPostHooks("models.py", content)

SpecHooks == Init /\ [][AddPreHook \/ AddPostHook \/ RunPre \/ RunPost]_vars

---------------------------------------------------------------------------
(* Properties of namespace discovery                                       *)

Range(seq) == { seq[i] : i \in DOMAIN seq }

\* The naming convention of the specification: a namespace type is a type
\* whose name ends with Mutations or Queries.
NamespaceName(n) == EndsWith(n, "Mutations") \/ EndsWith(n, "Queries")

NamespaceTypes == { t \in DOMAIN schema.types : NamespaceName(t) }

\* t -> u: a field of namespace type t has the namespace type u.
NamespaceEdge(t, u) ==
    \E j \in DOMAIN schema.types[t] : schema.types[t][j].type_name = u

RECURSIVE NamespaceReach(_, _)
\* The namespace types reached from the set `from` in at most n steps.
NamespaceReach(from, n) ==
    IF n = 0 THEN from
    ELSE NamespaceReach(
             from \cup { u \in NamespaceTypes :
                           \E t \in from : NamespaceEdge(t, u) },
             n - 1)

NoNamespaceCycle ==
    \A t \in NamespaceTypes :
        t \notin NamespaceReach(
                     { u \in NamespaceTypes : NamespaceEdge(t, u) },
                     Cardinality(NamespaceTypes))

RootsBefore(kind) == IF kind = "query" THEN pre.queries ELSE pre.mutations

Discovered == Range(nested_queries) \cup Range(nested_mutations)

RECURSIVE WalkPath(_, _, _)
\* path[k..] names namespace-typed fields from type t down to a leaf field.
WalkPath(t, path, k) ==
    /\ t \in DOMAIN schema.types
    /\ \E j \in DOMAIN schema.types[t] :
         LET f == schema.types[t][j] IN
           /\ f.name = path[k]
           /\ IF k = Len(path)
              THEN ~NamespaceName(f.type_name)
              ELSE /\ NamespaceName(f.type_name)
                   /\ WalkPath(f.type_name, path, k + 1)

IsLeafPath(kind, path) ==
    /\ Len(path) >= 2
    /\ \E r \in Range(RootsBefore(kind)) :
         /\ r.name = path[1]
         /\ NamespaceName(r.return_type)
         /\ WalkPath(r.return_type, path, 2)

RECURSIVE CollectArguments(_, _, _)
\* The arguments of the namespace fields path[k], ..., up to the leaf.
CollectArguments(t, path, k) ==
    IF k >= Len(path) THEN << >>
    ELSE LET j == CHOOSE j \in DOMAIN schema.types[t] :
                      schema.types[t][j].name = path[k]
             f == schema.types[t][j]
         IN  pre.lists[f.arguments]
                 \o CollectArguments(f.type_name, path, k + 1)

InheritedArguments(kind, path) ==
    LET r == CHOOSE r \in Range(RootsBefore(kind)) :
                 r.name = path[1] /\ NamespaceName(r.return_type)
    IN  pre.lists[r.arguments] \o CollectArguments(r.return_type, path, 2)

RECURSIVE LeafField(_, _, _)
\* The leaf field that path[k..] ends in.
LeafField(t, path, k) ==
    LET j == CHOOSE j \in DOMAIN schema.types[t] :
                 schema.types[t][j].name = path[k]
        f == schema.types[t][j]
    IN  IF k = Len(path) THEN f ELSE LeafField(f.type_name, path, k + 1)

LeafOf(op) ==
    LET r == CHOOSE r \in Range(RootsBefore(op.operation_type)) :
                 r.name = op.path[1] /\ NamespaceName(r.return_type)
    IN  LeafField(r.return_type, op.path, 2)

\* C1: for every schema in which no namespace type is reachable from itself
\* through namespace-typed fields, _discover_nested_operations terminates:
\* it reaches its end, with the discovered operations appended.
C1_DiscoveryTerminates == NoNamespaceCycle ~> (pc = "done")

C1_Witness ==
    /\ pc = "done"
    /\ NoNamespaceCycle
    /\ \E op \in Discovered : Len(op.path) >= 3

\* C2: every emitted operation's path is the name of the root operation the
\* traversal started from, then the names of the namespace-typed fields
\* traversed, then the name of the leaf field, which is the operation's name.
C2_PathIsRootNamespacesLeaf ==
    \A op \in Discovered :
        /\ Len(op.path) >= 1
        /\ op.path[Len(op.path)] = op.name
        /\ IsLeafPath(op.operation_type, op.path)

C2_Witness ==
    \E op \in Discovered :
        op.path = << "policy", "internetFirewall", "addRule" >>

\* C3: every emitted operation's parent_arguments is the root operation's
\* arguments followed by the arguments of each namespace-typed field
\* traversed, outer to inner; the leaf's own arguments are its arguments and
\* are not among the parent_arguments.
C3_ParentArgumentsInherited ==
    \A op \in Discovered :
        /\ lists[op.parent_arguments]
               = InheritedArguments(op.operation_type, op.path)
        /\ op.arguments = LeafOf(op).arguments
        /\ \A i \in DOMAIN lists[op.arguments] :
             \A k \in DOMAIN lists[op.parent_arguments] :
               lists[op.arguments][i].id # lists[op.parent_arguments][k].id

\* A leaf two namespace levels below its root, with an argument from each.
C3_Witness ==
    \E op \in Discovered :
        /\ Len(op.path) >= 3
        /\ Len(lists[op.parent_arguments]) >= 2
        /\ lists[op.arguments] # << >>
        /\ lists[op.parent_arguments][1].id # lists[op.parent_arguments][2].id

\* C4: all_arguments is parent_arguments followed by arguments: element by
\* element, the inherited arguments first, none dropped, repeated or moved.
C4_AllArgumentsOrder ==
    \A op \in Range(queries) \cup Range(mutations) \cup Discovered :
        LET all    == all_arguments(op, lists)
            parent == lists[op.parent_arguments]
            own    == lists[op.arguments]
        IN  /\ Len(all) = Len(parent) + Len(own)
            /\ \A i \in DOMAIN parent : all[i] = parent[i]
            /\ \A i \in DOMAIN own : all[Len(parent) + i] = own[i]

C4_Witness ==
    \E op \in Range(mutations) :
        /\ pc = "done"
        /\ Len(lists[op.parent_arguments]) = 2
        /\ Len(lists[op.arguments]) = 1
        /\ Len(all_arguments(op, lists)) = 3

\* Every operation of the schema, by list and position.
OperationPositions ==
    ( {"queries"} \X DOMAIN queries ) \cup ( {"mutations"} \X DOMAIN mutations )

OperationAt(x) ==
    IF x[1] = "queries" THEN queries[x[2]] ELSE mutations[x[2]]

\* The argument lists that a step changes.
Changed == { ref \in DOMAIN lists : lists'[ref] # lists[ref] }

\* C5: the parent_arguments list of a discovered operation is a fresh copy:
\* changing it in place changes the parent_arguments of no other discovered
\* operation and the arguments list of no root operation and of no field.
C5_ParentArgumentsFresh ==
    [][ pc = "done" =>
          /\ \A x, y \in OperationPositions :
               ( x # y /\ OperationAt(x).parent_arguments \in Changed )
               => OperationAt(y).parent_arguments \notin Changed
          /\ \A r \in Range(queries) \cup Range(mutations) :
               r.arguments \notin Changed
          /\ \A t \in DOMAIN schema.types :
               \A j \in DOMAIN schema.types[t] :
                 schema.types[t][j].arguments \notin Changed ]_vars

\* Two sibling leaves under one root, one of them with its list changed.
C5_Witness ==
    /\ pc = "done"
    /\ \E i, k \in DOMAIN mutations :
         /\ i # k
         /\ Len(mutations[i].path) = 2 /\ Len(mutations[k].path) = 2
         /\ lists[mutations[i].parent_arguments]
                # InheritedArguments("mutation", mutations[i].path)
         /\ lists[mutations[k].parent_arguments]
                = InheritedArguments("mutation", mutations[k].path)

\* The name of the boolean type of a GraphQL schema.
BooleanType == "Boolean"

\* C6: a non-namespace field named placeholder whose type is the schema's
\* boolean type is skipped: no operation is ever emitted for it.
C6_PlaceholderSkipped ==
    \A op \in Discovered :
        ~(op.name = "placeholder" /\ op.return_type = BooleanType)

RECURSIVE CountLeaves(_, _, _)
\* The leaf fields under namespace type t; with `named`, those named
\* placeholder are left out.
CountLeaves(t, named, fuel) ==
    IF t \notin DOMAIN schema.types \/ fuel = 0 THEN 0
    ELSE LET fs == schema.types[t]
             RECURSIVE Sum(_)
             Sum(j) ==
                 IF j > Len(fs) THEN 0
                 ELSE Sum(j + 1)
                      + ( IF NamespaceName(fs[j].type_name)
                          THEN CountLeaves(fs[j].type_name, named, fuel - 1)
                          ELSE IF named /\ fs[j].name = "placeholder"
                               THEN 0 ELSE 1 )
         IN  Sum(1)

RECURSIVE CountRootLeaves(_, _, _)
CountRootLeaves(roots, named, k) ==
    IF k > Len(roots) THEN 0
    ELSE CountRootLeaves(roots, named, k + 1)
         + ( IF NamespaceName(roots[k].return_type)
             THEN CountLeaves(roots[k].return_type, named,
                              Cardinality(DOMAIN schema.types) + 1)
             ELSE 0 )

AppendedOnly(ops, before, kind) ==
    /\ Len(ops) >= Len(before)
    /\ SubSeq(ops, 1, Len(before)) = before
    /\ \A i \in Len(before) + 1 .. Len(ops) :
         /\ ops[i].operation_type = kind
         /\ IsLeafPath(kind, ops[i].path)
         /\ \A k \in Len(before) + 1 .. Len(ops) :
              ops[k].path = ops[i].path => k = i
    /\ Len(ops) - Len(before) >= CountRootLeaves(before, TRUE, 1)
    /\ Len(ops) - Len(before) <= CountRootLeaves(before, FALSE, 1)

\* C7: discovery only appends: afterwards schema.queries is its content
\* before discovery, unmodified, followed by the leaves found under the
\* query roots, each once and each of kind query; and schema.mutations
\* likewise for the mutation roots.
C7_DiscoveryOnlyAppends ==
    pc = "done" =>
        /\ AppendedOnly(queries, pre.queries, "query")
        /\ AppendedOnly(mutations, pre.mutations, "mutation")
        /\ Appended(queries, pre.queries) = nested_queries
        /\ Appended(mutations, pre.mutations) = nested_mutations

C7_Witness ==
    /\ pc = "done"
    /\ Len(queries) > Len(pre.queries)
    /\ Len(mutations) > Len(pre.mutations) + 1
    /\ pre.queries # << >>

---------------------------------------------------------------------------
(* The memoization cache of QueryBuilder.build                             *)

\* The last call of build passed an ALL or a MINIMAL selection.
LastCached == last.called /\ last.fields.mode \in { "all", "minimal" }

\* The last call of build passed a CUSTOM selection.
LastCustom == last.called /\ last.fields.mode = "custom"

\* This step is a call of build with the arguments of the call before it.
RepeatedCall ==
    /\ last.called
    /\ nbuilds' = nbuilds + 1
    /\ last'.operation = last.operation
    /\ last'.fields = last.fields

\* What a fresh QueryBuilder over the same schema does for the last call.
FreshBuild == BuildQuery(last.operation, last.fields)

\* C8: two calls of build in a row with the same operation and the same ALL
\* or MINIMAL selection return the same document, and the second call is a
\* cache hit.
C8_RepeatedBuildIdentical ==
    [][ (RepeatedCall /\ LastCached) =>
            /\ last.err = ""
            /\ last'.err = ""
            /\ last'.hit
            /\ last'.query = last.query ]_vars

\* C9: a call of build with an ALL or a MINIMAL selection, after any calls
\* before it, returns the document that a fresh QueryBuilder returns for
\* the same operation and the same selection.
C9_CachedEqualsFresh ==
    (LastCached /\ last.err = "") =>
        /\ FreshBuild.err = ""
        /\ last.query = FreshBuild.query

\* C10: no cache entry belongs to the CUSTOM policy, and a CUSTOM call is
\* never a cache hit and returns the document for its own field list.
C10_CustomNeverCached ==
    /\ \A k \in DOMAIN query_cache : ~EndsWith(k, ":custom")
    /\ LastCustom =>
           /\ ~last.hit
           /\ last.err = ""
           /\ last.query = FreshBuild.query

---------------------------------------------------------------------------
(* The shape of a built document                                           *)

\* The last call of build built a document itself (no cache hit, no error).
LastBuilt == last.called /\ ~last.hit /\ last.err = ""

\* The lines of a document.
DocLines(doc) == Split(doc, "\n")

\* line opens the field `segment` at `level` levels of indentation, with or
\* without an argument list.
IsOpeningLine(line, segment, level) ==
    LET head == Indent(level) \o segment IN
        /\ StartsWith(line, head)
        /\ EndsWith(line, " {")
        /\ \/ line = head \o " {"
           \/ /\ Len(line) > Len(head) + 3
              /\ At(line, Len(head) + 1) = "("
              /\ At(line, Len(line) - 2) = ")"

\* The document lines strictly between the last opening line and the first
\* closing brace of the wrappers of a path of k segments.
ReturnSection(lines, k) == SubSeq(lines, k + 2, Len(lines) - k - 1)

\* C11: a document built for a path of k segments has, after its header
\* line, k opening lines (segment i at indentation i, in path order), then
\* the return-field selection, then k closing braces in reverse order at
\* the matching indentation, then the brace that closes the document.
C11_WrapperBracesMatch ==
    LastBuilt =>
        LET path  == last.operation.path
            k     == Len(path)
            lines == DocLines(last.query)
            n     == Len(lines)
            ret   == build_return_fields(last.operation.return_type,
                                         last.fields, k + 1)
        IN  /\ n >= 2 * k + 3
            /\ \A i \in 1..k : IsOpeningLine(lines[i + 1], path[i], i)
            /\ \A i \in 1..k : lines[n - i] = Indent(i) \o "}"
            /\ lines[n] = "}"
            /\ ret.err = ""
            /\ Join(ReturnSection(lines, k), "\n") = ret.lines[1]
            /\ \A j \in 1..Len(ReturnSection(lines, k)) :
                   LET l == ReturnSection(lines, k)[j] IN
                       l = "" \/ StartsWith(l, Indent(k + 1))

C11_Witness ==
    /\ LastBuilt
    /\ Len(last.operation.path) = 3
    /\ Len(DocLines(last.query)) > 9

---------------------------------------------------------------------------
(* Return-field expansion under the ALL policy                             *)

RECURSIVE TrimLeft(_)
\* A line without its indentation.
TrimLeft(line) ==
    IF line # "" /\ At(line, 1) = " "
    THEN TrimLeft(SubSeq(line, 2, Len(line)))
    ELSE line

\* The names that the schema defines as object, input or interface types.
TypeNames ==
    DOMAIN schema.types \cup DOMAIN schema.inputs \cup DOMAIN schema.interfaces

\* The types of the object-typed fields of type t.
FieldTypes(t) ==
    { f.type_name : f \in { g \in Range(get_type_by_name(t).fields) :
                              ~is_scalar(g.type_name) } }

RECURSIVE TypeReach(_, _)
\* The type names reachable from the set `from` through object-typed fields.
TypeReach(from, fuel) ==
    LET more == from \cup UNION { FieldTypes(t) : t \in from \cap TypeNames }
    IN  IF fuel = 0 \/ more = from THEN from ELSE TypeReach(more, fuel - 1)

ReachFrom(t) == TypeReach({ t }, Cardinality(TypeNames) + 1)

\* The field of type t that is called name, in a set.
FieldNamed(t, name) ==
    { f \in Range(get_type_by_name(t).fields) : f.name = name }

RECURSIVE WalkAll(_, _, _)
\* Reads the lines of an ALL selection with the stack of the types that are
\* open at each line, the return type at the bottom.  A type that is open
\* further down the stack has the body "__typename" and nothing else; any
\* other type has one line per field, object-typed fields being opened.
WalkAll(lines, j, open) ==
    IF j > Len(lines) THEN Len(open) = 1
    ELSE LET t        == open[Len(open)]
             below    == Range(SubSeq(open, 1, Len(open) - 1))
             line     == TrimLeft(lines[j])
             name     == SubSeq(line, 1, Len(line) - 2)
             named    == FieldNamed(t, name)
         IN  IF t \in below
             THEN /\ line = "__typename"
                  /\ j < Len(lines)
                  /\ TrimLeft(lines[j + 1]) = "}"
                  /\ WalkAll(lines, j + 2, SubSeq(open, 1, Len(open) - 1))
             ELSE IF line = "}"
             THEN /\ Len(open) > 1
                  /\ WalkAll(lines, j + 1, SubSeq(open, 1, Len(open) - 1))
             ELSE IF EndsWith(line, " {")
             THEN /\ named # {}
                  /\ \A f \in named :
                       /\ ~is_scalar(f.type_name)
                       /\ f.type_name \in TypeNames
                       /\ WalkAll(lines, j + 1, Append(open, f.type_name))
             ELSE IF line = "__typename"
             THEN get_type_by_name(t).fields = << >>
                      /\ WalkAll(lines, j + 1, open)
             ELSE /\ FieldNamed(t, line) # {}
                  /\ \A f \in FieldNamed(t, line) : is_scalar(f.type_name)
                  /\ WalkAll(lines, j + 1, open)

\* The last call passed an ALL selection for a return type of the schema
\* from which every reachable type name is resolved, and the depth bound
\* lies beyond one expansion of each reachable type.
AllWithinBound ==
    /\ last.called /\ ~last.hit
    /\ last.fields.mode = "all"
    /\ last.operation.return_type \in TypeNames
    /\ LET reach == ReachFrom(last.operation.return_type) IN
           /\ \A t \in reach : is_scalar(t) \/ t \in TypeNames
           /\ Len(last.operation.path) + 1 + Cardinality(reach)
                  <= last.fields.max_depth

\* C12: under the ALL policy the expansion of a return type ends, whether
\* or not types refer to themselves or to each other in a cycle: a type
\* that is already being expanded on the current branch gets the body
\* __typename and is not expanded again.
C12_AllStopsAtVisitedType ==
    AllWithinBound =>
        /\ last.err = ""
        /\ WalkAll(ReturnSection(DocLines(last.query),
                                 Len(last.operation.path)),
                   1, << last.operation.return_type >>)

C12_Witness ==
    /\ AllWithinBound
    /\ last.err = ""
    /\ LET t == last.operation.return_type IN
           /\ t \notin FieldTypes(t)
           /\ t \in TypeReach(FieldTypes(t), Cardinality(TypeNames) + 1)

\* The last call built (no cache hit) under the ALL policy for a return
\* type of the schema from which every reachable type name is resolved.
AllResolved ==
    /\ last.called /\ ~last.hit
    /\ last.fields.mode = "all"
    /\ last.operation.return_type \in TypeNames
    /\ \A t \in ReachFrom(last.operation.return_type) :
           is_scalar(t) \/ t \in TypeNames

\* The indentation of a line, in levels of two spaces.
IndentLevel(line) == (Len(line) - Len(TrimLeft(line))) \div 2

\* C13: under the ALL policy an object-typed field met at max_depth is not
\* expanded: build raises nothing and returns a document with no selection
\* deeper than the level below max_depth.
C13_AllStopsAtMaxDepth ==
    AllResolved =>
        /\ last.err = ""
        /\ \A l \in Range(DocLines(last.query)) :
               IndentLevel(l) <= last.fields.max_depth + 1

---------------------------------------------------------------------------
(* Return-field expansion under the CUSTOM policy                          *)

\* C14: a CUSTOM call ends with a document, whatever its field list and
\* whatever the schema, and the document selects nothing deeper than the
\* level below max_depth.
C14_CustomStopsAtMaxDepth ==
    LastCustom =>
        /\ last.err = ""
        /\ \A l \in Range(DocLines(last.query)) :
               IndentLevel(l) <= last.fields.max_depth + 1

---------------------------------------------------------------------------
(* Variables                                                               *)

\* The variable names of a declaration list "$a: T, $b: [U]!", in order.
DeclaredVariables(var_decls) ==
    IF var_decls = "" THEN << >>
    ELSE LET decls == Split(var_decls, ",") IN
             [ k \in DOMAIN decls |-> Split(TrimLeft(decls[k]), ":")[1] ]

\* Positions i (inherited) and j (own) of all_arguments hold the only two
\* arguments of the operation called `input`, and their type names differ.
TwoInputs(op, i, j) ==
    LET args == all_arguments(op, lists)
        n    == Len(lists[op.parent_arguments])
    IN  /\ i \in 1..n /\ j \in (n + 1)..Len(args)
        /\ args[i].name = "input" /\ args[j].name = "input"
        /\ args[i].type_name # args[j].type_name
        /\ \A k \in DOMAIN args : args[k].name = "input" => k \in { i, j }

\* Type names for a pair of arguments called `input`: with and without the
\* suffixes that _type_to_var_suffix strips, and names made of suffixes only.
InputTypeNames ==
    { "AddRuleInput", "AddRulePayload", "AddRule", "PolicyMutationInput",
      "Input", "Payload", "MutationInput", "input" }

\* The variable names given to an inherited and an own argument `input` of
\* the type names t1 and t2.
InputPairNames(t1, t2) ==
    LET mapping == VariableMapping(
                       << IRArgument(1, "input", t1, FALSE, TRUE),
                          IRArgument(2, "input", t2, FALSE, FALSE) >>, 1, {})
    IN  << mapping[1].var_name, mapping[2].var_name >>

\* C15: an operation that inherits an argument `input` and has an own
\* argument `input` of another type gets two different variable names for
\* them, and its declaration list declares two different variables.
C15_DuplicateInputDistinct ==
    pc = "done" =>
        /\ \A t1, t2 \in InputTypeNames :
               t1 # t2 => InputPairNames(t1, t2)[1] # InputPairNames(t1, t2)[2]
        /\ \A x \in DOMAIN all_operations :
            LET op       == all_operations[x]
                mapping  == get_variable_mapping(op)
                declared == DeclaredVariables(build_variable_declarations(op))
            IN  \A i, j \in DOMAIN mapping :
                    TwoInputs(op, i, j) =>
                        /\ mapping[i].var_name # mapping[j].var_name
                        /\ Len(declared) = Len(mapping)
                        /\ declared[i] = "$" \o mapping[i].var_name
                        /\ declared[j] = "$" \o mapping[j].var_name
                        /\ declared[i] # declared[j]

C15_Witness ==
    /\ pc = "done"
    /\ \E x \in DOMAIN all_operations :
           \E i, j \in DOMAIN all_arguments(all_operations[x], lists) :
               TwoInputs(all_operations[x], i, j)

---------------------------------------------------------------------------
(* Return-field selection under the MINIMAL policy                         *)

\* The identity and display fields of the MINIMAL policy.
MinimalNames == { "id", "ID", "status", "name" }

\* The last call built (no cache hit) under the MINIMAL policy for a return
\* type of the schema that lies within the depth bound.
MinimalBuilt ==
    /\ LastBuilt
    /\ last.fields.mode = "minimal"
    /\ ~is_scalar(last.operation.return_type)
    /\ last.operation.return_type \in TypeNames
    /\ Len(last.operation.path) + 1 <= last.fields.max_depth

WildcardBuilt ==
    /\ LastBuilt
    /\ last.fields.mode = "custom"
    /\ "*" \in Range(last.fields.custom_fields)

\* C17: a wildcard at a level selects every field at and below that level,
\* whatever the other paths of the list: the document is the one of the
\* wildcard alone.
C17_WildcardSelectsAllBelow ==
    WildcardBuilt =>
        last.query
            = BuildQuery(last.operation,
                         FieldSelection("custom", << "*" >>,
                                        last.fields.max_depth)).query

---------------------------------------------------------------------------
(* Type names that the schema does not define                              *)

\* The names reachable from type name t that are neither scalars nor types
\* of the schema.
Unresolved(t) == { u \in ReachFrom(t) : ~is_scalar(u) /\ u \notin TypeNames }

\* The last call ran the builder (no cache hit) for a return type from which
\* an unresolved name is reachable (the return type itself, or the type of
\* a nested field), the depth bound lying beyond every reachable type.
MeetsUnresolved ==
    /\ last.called /\ ~last.hit
    /\ Unresolved(last.operation.return_type) # {}
    /\ Len(last.operation.path) + 1
           + Cardinality(ReachFrom(last.operation.return_type))
           <= last.fields.max_depth

\* C18: an unresolved type name is not fatal under any policy: build
\* returns a document, an unresolved return type has the selection
\* __typename, and no field of unresolved type is left with an empty body.
C18_UnresolvedDegrades ==
    MeetsUnresolved =>
        /\ last.err = ""
        /\ LET k       == Len(last.operation.path)
               section == ReturnSection(DocLines(last.query), k)
           IN  /\ last.operation.return_type \notin TypeNames
                      => section = << Indent(k + 1) \o "__typename" >>
               /\ \A j \in 1..(Len(section) - 1) :
                      EndsWith(section[j], " {")
                          => TrimLeft(section[j + 1]) # "}"

---------------------------------------------------------------------------
(* GraphQLExecutor.execute_operation                                       *)

\* This step is the first part of a call of execute_operation: the call
\* record changes, and not by the arrival of a response.
ExecuteStep ==
    /\ executor.call.state # "awaiting"
    /\ executor'.call # executor.call

\* This step builds no document, sends no request and leaves the cache.
NothingBuiltOrSent ==
    /\ query_cache' = query_cache
    /\ last' = last
    /\ nbuilds' = nbuilds
    /\ executor'.requests = executor.requests

\* C19: execute_operation raises RuntimeError when no builder is attached,
\* whatever the path, and ValueError when the path is not in the catalogue;
\* in both cases nothing is built or sent and the cache is unchanged.  A
\* document is built and a request is sent only with a builder attached and
\* for a path of the catalogue.
C19_ExecuteOperationChecks ==
    [][ /\ ExecuteStep =>
            /\ ~executor.query_builder =>
                   /\ executor'.call.state = "raised"
                   /\ executor'.call.err = "RuntimeError"
                   /\ NothingBuiltOrSent
            /\ ( /\ executor.query_builder
                 /\ executor'.call.path \notin DOMAIN executor.operations ) =>
                   /\ executor'.call.state = "raised"
                   /\ executor'.call.err = "ValueError"
                   /\ NothingBuiltOrSent
        /\ nbuilds' # nbuilds =>
            /\ executor.query_builder
            /\ executor'.call.path \in DOMAIN executor.operations
        /\ executor'.requests # executor.requests =>
            /\ executor.query_builder
            /\ executor'.call.path \in DOMAIN executor.operations
            /\ executor'.call.state = "awaiting"
            /\ nbuilds' = nbuilds + 1
            /\ executor'.requests = Append(executor.requests, last'.query) ]_vars

C19_Witness ==
    /\ executor.call.state = "raised"
    /\ executor.call.err = "ValueError"
    /\ Len(executor.requests) = 1
    /\ DOMAIN query_cache # {}

---------------------------------------------------------------------------
(* Response extraction                                                     *)

RECURSIVE ValueAt(_, _)
\* The value that data holds at path: data itself for the empty path, else
\* the entry for the last segment in the dict held at the path before it,
\* and None when there is no such dict or no such entry.
ValueAt(data, path) ==
    IF path = << >> THEN data
    ELSE LET parent == ValueAt(data, Front(path))
             key    == path[Len(path)]
         IN  IF DOMAIN parent = { "dict" } /\ key \in DOMAIN parent.dict
             THEN parent.dict[key]
             ELSE None

AddRulePath == << "policy", "internetFirewall", "addRule" >>

\* C20: the result of a call is the value found by walking the response
\* data along the path, and None as soon as a step meets None, a value that
\* is no dict, or a missing key.  {policy: {internetFirewall: {addRule:
\* {id: x}}}} yields {id: x} for the path policy, internetFirewall, addRule,
\* and the same structure without the key addRule yields None.
C20_ExtractPath ==
    /\ extract_path(Nest(AddRulePath, Dict("id" :> Scalar("x"))), AddRulePath)
           = Dict("id" :> Scalar("x"))
    /\ extract_path(Nest(Front(AddRulePath), Dict(<< >>)), AddRulePath) = None
    /\ executor.call.state = "returned" =>
           executor.call.result
               = ValueAt(executor.call.data, executor.call.path)

C20_Witness ==
    /\ executor.call.state = "returned"
    /\ executor.call.path = AddRulePath
    /\ executor.call.data = Nest(AddRulePath, Dict("id" :> Scalar("x")))
    /\ executor.call.result = Dict("id" :> Scalar("x"))


----------------------------------------------------------------------------
(* ClientNode (client_generator.py).  `nodes` is the heap of ClientNode    *)
(* objects; a children dict maps a name to the index of the child.         *)

\* Calls of add_operation that one run of the model makes.
MaxAdds == 3

ClientNode(name, snake_name) ==
    [ name |-> name, snake_name |-> snake_name,
      children |-> [ k \in {} |-> 0 ], operations |-> << >> ]

\* add_operation with the child created anew on every call.
RECURSIVE AddOperationReplace(_, _, _, _)
AddOperationReplace(heap, self, path, operation) ==
    IF Len(path) = 1
    THEN [ heap EXCEPT ![self].operations = Append(@, operation) ]
    ELSE LET child_name == path[1]
             child == Len(heap) + 1
             created ==
                 Append([ heap EXCEPT ![self].children =
                            [ k \in DOMAIN @ \cup {child_name} |->
                                IF k = child_name THEN child ELSE @[k] ] ],
                        ClientNode(child_name, to_snake_case(child_name)))
         IN  AddOperationReplace(created, child, Tail(path), operation)

\* ClientNode.add_operation(path, operation) on the node `self` of heap;
\* the heap after the call.
RECURSIVE AddOperation(_, _, _, _)
AddOperation(heap, self, path, operation) ==
    IF Len(path) = 1
    THEN [ heap EXCEPT ![self].operations = Append(@, operation) ]
    ELSE LET child_name == path[1]
             created ==
                 IF child_name \notin DOMAIN heap[self].children
                 THEN Append([ heap EXCEPT ![self].children =
                                 [ k \in DOMAIN @ \cup {child_name} |->
                                     IF k = child_name THEN Len(heap) + 1
                                     ELSE @[k] ] ],
                             ClientNode(child_name,
                                        to_snake_case(child_name)))
                 ELSE heap
         IN  AddOperation(created, created[self].children[child_name],
                          Tail(path), operation)

\* The paths the clients of the model add operations at.
NodePaths ==
    { << "addRule" >>,
      << "policy", "addRule" >>,
      << "policy", "removeRule" >>,
      << "policy", "internetFirewall", "addRule" >>,
      << "internetFirewall", "addRule" >>,
      << "policy", "policy", "addRule" >> }

\* root.add_operation(path, operation), root being nodes[1]; every call
\* hands over an operation object of its own.
add_operation(path, operation) ==
    /\ Len(added) < MaxAdds
    /\ nodes' = AddOperation(nodes, 1, path, operation)
    /\ added' = Append(added, [ path |-> path, operation |-> operation ])
    /\ UNCHANGED << schema, queries, mutations, lists, pc, ri, stack,
                    nested_queries, nested_mutations, pre,
                    query_cache, last, nbuilds, executor, hook_runner >>

AddOperationCall ==
    \E path \in NodePaths :
        add_operation(path, [ name |-> path[Len(path)],
                              id   |-> Len(added) + 1 ])

SpecClientNode == Init /\ [][AddOperationCall]_vars

----------------------------------------------------------------------------
(* ClientGenerator._generate_operation_method: the `variables` dict of the  *)
(* generated method.                                                       *)

\* Python reserved keywords that are escaped in parameter names.
reserved_keywords ==
    { "from", "import", "class", "def", "return", "yield", "raise",
      "try", "except", "finally", "with", "as", "pass", "break",
      "continue", "if", "elif", "else", "for", "while", "and", "or",
      "not", "in", "is", "lambda", "global", "nonlocal", "True",
      "False", "None", "async", "await", "type" }

\* ClientGenerator._type_to_var_suffix
client_type_to_var_suffix(type_name) ==
    LET name == StripSuffix(StripSuffix(StripSuffix(type_name, "Input"),
                                        "Mutation"), "Payload")
    IN  IF name = "" THEN "arg"
        ELSE LowerChar(At(name, 1)) \o SubSeq(name, 2, Len(name))

\* The loop with every variable named after its argument.
ArgToParamPlain(args, i, seen_var_names) ==
    [ k \in 1..(Len(args) - i + 1) |->
        [ arg |-> args[k + i - 1],
          param_name |-> to_snake_case(args[k + i - 1].name),
          var_name |-> args[k + i - 1].name ] ]

\* The loop `for arg in op.all_arguments` from its i-th argument on: the
\* entries (arg, param_name, var_name) of arg_to_param.
RECURSIVE ArgToParam(_, _, _)
ArgToParam(args, i, seen_var_names) ==
    IF i > Len(args) THEN << >>
    ELSE LET arg == args[i]
             var_name ==
                 IF arg.name \in seen_var_names
                 THEN arg.name \o "_"
                          \o client_type_to_var_suffix(arg.type_name)
                 ELSE arg.name
             snake == to_snake_case(var_name)
             param_name == IF snake \in reserved_keywords
                           THEN snake \o "_" ELSE snake
         IN  << [ arg |-> arg, param_name |-> param_name,
                  var_name |-> var_name ] >>
                 \o ArgToParam(args, i + 1, seen_var_names \cup { var_name })

\* The lines of the generated method that fill the `variables` dict.
VariablesDictLines(op) ==
    LET arg_to_param == ArgToParam(all_arguments(op, lists), 1, {}) IN
        << "        variables = {" >>
            \o [ k \in DOMAIN arg_to_param |->
                   "            \"" \o arg_to_param[k].var_name \o "\": "
                       \o arg_to_param[k].param_name \o "," ]
            \o << "        }" >>

----------------------------------------------------------------------------
(* Hooks *)

\* What a chain of pre-hooks makes of ir: the last hook applied to what the
\* hooks before it make of ir.
RECURSIVE PreChain(_, _)
PreChain(hooks, ir) ==
    IF hooks = << >> THEN ir
    ELSE pre_generate(hooks[Len(hooks)], PreChain(Front(hooks), ir))

RECURSIVE PostChain(_, _, _)
PostChain(hooks, filename, content) ==
    IF hooks = << >> THEN content
    ELSE post_generate(hooks[Len(hooks)], filename,
                       PostChain(Front(hooks), filename, content))

\* C21: run_pre_hooks returns what the registered pre-hooks make of the
\* input IR when each, in registration order, is handed the result of the
\* one before it, and run_post_hooks does the same with the content; with
\* no hook registered the input comes back unchanged.
C21_HooksThreadInOrder ==
    LET run == hook_runner.run
    IN  /\ run.kind = "pre" => run.output = PreChain(run.hooks, run.input)
        /\ run.kind = "post" =>
               run.output = PostChain(run.hooks, "models.py", run.input)
        /\ run.kind # "none" /\ run.hooks = << >> => run.output = run.input

\* A filter ran before the counting hook, and the count is that of the
\* filtered types.
C21_Witness ==
    LET run == hook_runner.run
    IN  /\ run.kind = "pre"
        /\ Len(run.hooks) = 2
        /\ run.hooks[1].hook = "FilterTypesHook"
        /\ run.hooks[2] = CountTypesHook
        /\ run.output.type_count = << Cardinality(DOMAIN run.output.types) >>
        /\ Cardinality(DOMAIN run.output.types)
               < Cardinality(DOMAIN run.input.types)


----------------------------------------------------------------------------
(* Client tree *)

\* The node reached from `self` by following path through children; 0 when
\* a child is missing.
RECURSIVE NodeAt(_, _)
NodeAt(self, path) ==
    IF path = << >> THEN self
    ELSE IF path[1] \in DOMAIN nodes[self].children
    THEN NodeAt(nodes[self].children[path[1]], Tail(path))
    ELSE 0

\* The nodes of the tree below and including `self`.
RECURSIVE TreeNodes(_)
TreeNodes(self) ==
    {self} \cup UNION { TreeNodes(nodes[self].children[k]) :
                          k \in DOMAIN nodes[self].children }

\* The places of the tree that hold operation: node and index in its list.
PlacesOf(operation) ==
    { pl \in UNION { { << n, i >> : i \in DOMAIN nodes[n].operations } :
                       n \in TreeNodes(1) } :
        nodes[pl[1]].operations[pl[2]] = operation }

\* C22: every operation added to the root is held exactly once in the tree,
\* by the node reached from the root along path[:-1] (the root itself for a
\* path of length 1), and the tree holds nothing else.
C22_AddOperationPlacesOnce ==
    /\ \A k \in DOMAIN added :
           LET node == NodeAt(1, Front(added[k].path))
           IN  /\ node # 0
               /\ Cardinality(PlacesOf(added[k].operation)) = 1
               /\ \E i \in DOMAIN nodes[node].operations :
                      nodes[node].operations[i] = added[k].operation
    /\ \A n \in TreeNodes(1) : \A i \in DOMAIN nodes[n].operations :
           \E k \in DOMAIN added :
               added[k].operation = nodes[n].operations[i]

\* Two operations were added below one child of the root, the second call
\* found the child in place, and a deeper node was created on demand.
C22_Witness ==
    /\ \E i, j \in DOMAIN added :
           /\ i < j
           /\ Len(added[i].path) >= 2
           /\ Len(added[j].path) = 3
           /\ added[i].path[1] = added[j].path[1]
           /\ NodeAt(1, << added[i].path[1] >>) # 0
    /\ \E k \in DOMAIN added : Len(added[k].path) = 1


----------------------------------------------------------------------------
(* Arguments of the wrapper *)

\* `name: $variable` for the k-th element of all_arguments, with the variable
\* name the k-th entry of the mapping holds.
RenderedArg(op, k) ==
    all_arguments(op, lists)[k].name \o ": $"
        \o get_variable_mapping(op)[k].var_name

\* The argument list of the i-th segment of the path (i from 1), given as
\* positions of all_arguments, inherited arguments first.
SegmentArgPositions(op, i) ==
    LET n == Len(lists[op.parent_arguments]) IN
        IF i < Len(op.path)
        THEN IF i <= n THEN << i >> ELSE << >>
        ELSE [ j \in 1..Len(lists[op.arguments]) |-> n + j ]

ExpectedOpening(op, i) ==
    LET at == SegmentArgPositions(op, i) IN
        Indent(i) \o op.path[i]
            \o ( IF at = << >> THEN ""
                 ELSE "(" \o Join([ j \in DOMAIN at |-> RenderedArg(op, at[j]) ],
                                  ", ") \o ")" )
            \o " {"

\* C23: in a built document the line of the i-th non-leaf segment carries the
\* i-th inherited argument if there is one and no argument list otherwise,
\* the line of the leaf carries the operation's own arguments in order, and
\* each is written `name: $variable` with the variable of its mapping entry.
C23_WrapperArguments ==
    LastBuilt =>
        LET op    == last.operation
            lines == DocLines(last.query)
        IN  /\ Len(lines) > Len(op.path) + 1
            /\ \A i \in DOMAIN op.path : lines[i + 1] = ExpectedOpening(op, i)

\* A document was built for an operation with one inherited argument per
\* non-leaf segment and an own argument whose variable was renamed.
C23_Witness ==
    /\ LastBuilt
    /\ Len(lists[last.operation.parent_arguments])
           = Len(last.operation.path) - 1
    /\ Len(last.operation.path) > 2
    /\ \E k \in DOMAIN get_variable_mapping(last.operation) :
           /\ k > Len(lists[last.operation.parent_arguments])
           /\ get_variable_mapping(last.operation)[k].var_name
                  # get_variable_mapping(last.operation)[k].arg.name


----------------------------------------------------------------------------
(* Variables of a document *)

\* The text between the parentheses of the header line of a document.
HeaderDeclarations(doc) ==
    LET header == DocLines(doc)[1]
        open   == CHOOSE i \in 1..Len(header) :
                      /\ At(header, i) = "("
                      /\ \A k \in 1..(i - 1) : At(header, k) # "("
    IN  SubSeq(header, open + 1, Len(header) - 3)

\* The k-th argument of args is the first of its name.
FirstOfName(args, k) == \A j \in 1..(k - 1) : args[j].name # args[k].name

\* The variable name of an argument whose name was met before.
Suffixed(arg) == arg.name \o "_" \o type_to_var_suffix(arg.type_name)

\* The k-th declaration of a built document names the k-th argument of
\* all_arguments, and the document declares nothing else.
DeclaredInOrder ==
    LET args     == all_arguments(last.operation, lists)
        declared == DeclaredVariables(HeaderDeclarations(last.query))
        mapping  == get_variable_mapping(last.operation)
    IN  /\ Len(declared) = Len(args)
        /\ Len(mapping) = Len(args)
        /\ \A k \in DOMAIN args :
               /\ mapping[k].arg = args[k]
               /\ declared[k] = "$" \o mapping[k].var_name

\* C24 (by argument name): a mapping entry and a declaration per element of
\* all_arguments, in order; the first argument of a name keeps the name, and
\* every later argument of that name is called name_suffix, the suffix made
\* from its type name.
C24_FirstKeepsName ==
    LastBuilt =>
        /\ DeclaredInOrder
        /\ \A k \in DOMAIN all_arguments(last.operation, lists) :
               LET arg == all_arguments(last.operation, lists)[k]
                   var == get_variable_mapping(last.operation)[k].var_name
               IN  IF FirstOfName(all_arguments(last.operation, lists), k)
                   THEN var = arg.name
                   ELSE var = Suffixed(arg) /\ var # arg.name

\* The variable names given to the arguments before the k-th.
NamesBefore(op, k) ==
    { get_variable_mapping(op)[j].var_name : j \in 1..(k - 1) }

\* C24 (by variable name): an argument keeps its name unless that name is already the
\* variable name of an earlier argument (its own name met before, or the
\* renamed variable of another argument); then it is called name_suffix.
C24_UnusedNameKept ==
    LastBuilt =>
        /\ DeclaredInOrder
        /\ \A k \in DOMAIN all_arguments(last.operation, lists) :
               LET arg == all_arguments(last.operation, lists)[k]
                   var == get_variable_mapping(last.operation)[k].var_name
               IN  IF arg.name \notin NamesBefore(last.operation, k)
                   THEN var = arg.name
                   ELSE var = Suffixed(arg) /\ var # arg.name

\* A document was built for ns(input) { leaf(input, input_addRule) }: the
\* second `input` is renamed, and the first argument called input_addRule
\* meets its name in use.
C24_Witness ==
    /\ LastBuilt
    /\ \E k \in DOMAIN all_arguments(last.operation, lists) :
           /\ FirstOfName(all_arguments(last.operation, lists), k)
           /\ all_arguments(last.operation, lists)[k].name
                  \in NamesBefore(last.operation, k)
    /\ \E k \in DOMAIN all_arguments(last.operation, lists) :
           ~FirstOfName(all_arguments(last.operation, lists), k)


----------------------------------------------------------------------------
(* Selectors of the CUSTOM policy *)

\* The fields of type name t; none when t names no type.
FieldNames(t) == { f.name : f \in Range(get_type_by_name(t).fields) }

\* The segments of a selector that name fields on the way down from type t:
\* the selector up to its first segment that is neither the wildcard nor a
\* field of the type reached.
RECURSIVE MatchedPrefix(_, _)
MatchedPrefix(t, parts) ==
    IF parts = << >> THEN << >>
    ELSE IF parts[1] = "*" THEN parts
    ELSE IF parts[1] \notin FieldNames(t) THEN << >>
    ELSE << parts[1] >>
             \o MatchedPrefix((CHOOSE f \in FieldNamed(t, parts[1]) :
                                 TRUE).type_name, Tail(parts))

\* The field list with the part of its k-th selector that names no field at
\* its level left out: the selector cut back to its matched prefix, or
\* dropped when its first segment already names no field.
UnmatchedLeftOut(t, custom, k) ==
    LET matched == MatchedPrefix(t, Split(custom[k], ".")) IN
        IF matched = << >>
        THEN SubSeq(custom, 1, k - 1) \o SubSeq(custom, k + 1, Len(custom))
        ELSE [ custom EXCEPT ![k] = Join(matched, ".") ]

\* The names selected at the first level of the return-field selection of a
\* document built for a path of k segments.
TopLevelNames(doc, k) ==
    LET section == ReturnSection(DocLines(doc), k)
        Name(line) == IF EndsWith(line, " {")
                      THEN SubSeq(line, 1, Len(line) - 2) ELSE line
    IN  { Name(TrimLeft(section[i])) :
            i \in { j \in DOMAIN section :
                      /\ IndentLevel(section[j]) = k + 1
                      /\ TrimLeft(section[j]) \notin { "}", "__typename" } } }

\* C25: a CUSTOM call for a known object return type selects, at the first
\* level, the marker and exactly the fields named by the first segment of a
\* selector (every field with a wildcard there); and a selector that, at its
\* level, names no field of the type raises nothing of its own and changes
\* nothing: the call ends as the call with that part of the list left out.
C25_UnmatchedSelectorIgnored ==
    ( /\ last.called
      /\ last.fields.mode = "custom"
      /\ get_type_by_name(last.operation.return_type).found ) =>
        LET op     == last.operation
            custom == last.fields.custom_fields
            firsts == { Split(custom[k], ".")[1] : k \in DOMAIN custom }
        IN  /\ last.err = "" =>
                   TopLevelNames(last.query, Len(op.path))
                       = { n \in FieldNames(op.return_type) :
                             n \in firsts \/ "*" \in firsts }
            /\ \A k \in DOMAIN custom :
                   LET without ==
                           BuildQuery(op, FieldSelection("custom",
                               UnmatchedLeftOut(op.return_type, custom, k),
                               last.fields.max_depth))
                   IN  /\ last.err = without.err
                       /\ last.query = without.query


----------------------------------------------------------------------------
(* Namespace fields of undefined type *)

\* The namespace types that the traversal enters: those the root operations
\* return and those reached from them through namespace-typed fields.
TraversedNamespaces ==
    NamespaceReach({ r.return_type :
                       r \in { q \in Range(pre.queries) \cup Range(pre.mutations) :
                                 q.return_type \in NamespaceTypes } },
                   Cardinality(NamespaceTypes))

\* C26: a field of a traversed namespace type whose own type is named like a
\* namespace but is not defined is handled as a leaf: when discovery is
\* done, an operation has been emitted for it.
C26_UnresolvedNamespaceIsLeaf ==
    pc = "done" =>
        \A t \in TraversedNamespaces : \A j \in DOMAIN schema.types[t] :
            LET field == schema.types[t][j] IN
                ( /\ NamespaceName(field.type_name)
                  /\ field.type_name \notin DOMAIN schema.types ) =>
                    \E op \in Discovered :
                        /\ op.name = field.name
                        /\ op.return_type = field.type_name


----------------------------------------------------------------------------
(* Scalars and enums *)

\* The names of the fields that a section of a document opens a
\* sub-selection for.
OpenedNames(section) ==
    { SubSeq(TrimLeft(section[i]), 1, Len(TrimLeft(section[i])) - 2) :
        i \in { j \in DOMAIN section : EndsWith(section[j], " {") } }

\* C27: a document built for an operation that returns a scalar or an enum
\* has an empty return-field selection, whatever the policy, the length of
\* the path and max_depth; and no sub-selection is opened for a field that
\* no type of the schema declares with an object type.
C27_ScalarsNeverExpand ==
    LastBuilt =>
        LET k       == Len(last.operation.path)
            section == ReturnSection(DocLines(last.query), k)
        IN  /\ is_scalar(last.operation.return_type) => section = << "" >>
            /\ \A n \in OpenedNames(section) :
                   \E t \in TypeNames : \E f \in FieldNamed(t, n) :
                       ~is_scalar(f.type_name)


\* C28: the variable names of a document are pairwise distinct: no two
\* entries of the mapping, and no two declarations of the header, share a
\* name.
C28_VariableNamesDistinct ==
    LastBuilt =>
        LET mapping  == get_variable_mapping(last.operation)
            declared == DeclaredVariables(HeaderDeclarations(last.query))
        IN  /\ \A i, j \in DOMAIN mapping :
                   mapping[i].var_name = mapping[j].var_name => i = j
            /\ \A i, j \in DOMAIN declared : declared[i] = declared[j] => i = j


\* The variables that an opening line of the wrapper passes to its field, in
\* order: the text after `: ` of each argument between the parentheses.
ReferencedVariables(line) ==
    IF ~EndsWith(line, ") {") THEN << >>
    ELSE LET open == CHOOSE i \in 1..Len(line) :
                         /\ At(line, i) = "("
                         /\ \A k \in 1..(i - 1) : At(line, k) # "("
             args == Split(SubSeq(line, open + 1, Len(line) - 3), ",")
         IN  [ k \in DOMAIN args |-> TrimLeft(Split(args[k], ":")[2]) ]

\* The places of the wrapper of a document that pass variable v: opening
\* line and position in its argument list.
ReferencesOf(doc, k, v) ==
    LET lines == DocLines(doc) IN
        UNION { { << i, j >> : j \in { n \in DOMAIN ReferencedVariables(lines[i]) :
                                         ReferencedVariables(lines[i])[n] = v } } :
                  i \in 2..(k + 1) }

\* C29: in a document built for a discovered operation every declared
\* variable is passed exactly once in the wrapper, and every variable that
\* the wrapper passes is declared.
C29_DeclaredIffReferenced ==
    ( LastBuilt /\ last.operation \in Discovered ) =>
        LET k        == Len(last.operation.path)
            lines    == DocLines(last.query)
            declared == DeclaredVariables(HeaderDeclarations(last.query))
        IN  /\ \A d \in Range(declared) :
                   Cardinality(ReferencesOf(last.query, k, d)) = 1
            /\ \A i \in 2..(k + 1) :
                   \A v \in Range(ReferencedVariables(lines[i])) :
                       v \in Range(declared)


----------------------------------------------------------------------------
(* Request variables of the generated client *)

\* The keys of the dict that the lines of a generated method write, in order.
VariableKeys(lines) ==
    [ k \in 1..(Len(lines) - 2) |-> Split(lines[k + 1], "\"")[2] ]

\* C30: the keys that the generated method of an operation writes into its
\* `variables` dict are, element by element, the variables that the header
\* of the operation's document declares.
C30_ClientKeysAreDeclared ==
    LastBuilt =>
        LET keys     == VariableKeys(VariablesDictLines(last.operation))
            declared == DeclaredVariables(HeaderDeclarations(last.query))
        IN  /\ Len(keys) = Len(declared)
            /\ \A k \in DOMAIN keys : "$" \o keys[k] = declared[k]

\* A document was built for an operation with a renamed variable, and the
\* generated method writes that name as a key.
C30_Witness ==
    /\ LastBuilt
    /\ \E k \in DOMAIN get_variable_mapping(last.operation) :
           /\ get_variable_mapping(last.operation)[k].var_name
                  # get_variable_mapping(last.operation)[k].arg.name
           /\ VariableKeys(VariablesDictLines(last.operation))[k]
                  = get_variable_mapping(last.operation)[k].var_name

===========================================================================
